---- MODULE Spec2Model ----
(***************************************************************************)
(* A model of maps_scraper.py: the run of main() with its checkpoint file  *)
(* (Spec), the pagination loop scroll_results_panel (SpecScroll), the      *)
(* deduplicator deduplicate_businesses (SpecDedupe), the checkpoint file's *)
(* JSON round trip save_checkpoint / load_checkpoint (SpecCkpt), the       *)
(* business loop with extract_business_data and the email harvester, step  *)
(* by step (SpecVisit), retry_action (SpecRetry), normalize_phone          *)
(* (SpecPhone) and validate_email (SpecEmail).                             *)
(*                                                                         *)
(* A Python str is a sequence of one-character strings, so that lower(),   *)
(* strip(), re.sub, split, join, sorted and the JSON escaping are computed *)
(* character by character.                                                 *)
(***************************************************************************)
EXTENDS Integers, Sequences, FiniteSets, TLC

VARIABLES
    \* ---- main(): one run after another over the same checkpoint file
    pc,             \* where main() is: idle, setup, loop, closing, dedupe, output
    feed,           \* the detail-link list the search yields: [total, bad]
    businesses,     \* main's list `businesses`
    start_index,    \* main's `start_index`
    index,          \* the position enumerate() is at in business_hrefs
    elapsed,        \* time.time() - start_time
    file,           \* the checkpoint file: NoFile or the dict it holds
    run,            \* facts of the current (or last) run, read by the properties
                    \* (`attempted`: the links visited by the runs so far)
    \* ---- scroll_results_panel
    scroll,
    \* ---- deduplicate_businesses
    dedupe,
    \* ---- save_checkpoint / load_checkpoint on the file's text
    ckpt,
    \* ---- the business loop of main(), one step of its body at a time
    visit,
    \* ---- retry_action
    retry,
    \* ---- normalize_phone
    normalize,
    \* ---- validate_email
    validate,
    \* ---- get_selector
    resolve

mainVars == <<pc, feed, businesses, start_index, index, elapsed, file, run>>
restVars == <<visit, retry, normalize, validate, resolve>>
vars == <<pc, feed, businesses, start_index, index, elapsed, file, run, scroll, dedupe, ckpt,
          visit, retry, normalize, validate, resolve>>

-----------------------------------------------------------------------------
(* Bounds of the model *)

\* The longest detail-link list (one more than a checkpoint period).
MaxItems == 11
\* The global deadline args.timeout, in clock ticks.
Timeout == 1

-----------------------------------------------------------------------------
(* Strings *)

\* The absent sentinel "N/A".
NA == <<"N", "/", "A">>

\* The characters of the model in code point order (Python compares str by
\* code point).
CharOrder ==
    <<"\n", " ", "\"", "(", ")", "+", ",", "-", ".", "/", "0", "1", "2",
      "3", "4", "5", "6", "7", "8", "9", ":", "@", "A", "B", "C", "D", "E",
      "F", "G", "H", "I", "J", "K", "L", "M", "N", "O", "P", "Q", "R", "S",
      "T", "U", "V", "W", "X", "Y", "Z", "[", "\\", "]", "_", "a", "b",
      "c", "d", "e", "f", "g", "h", "i", "j", "k", "l", "m", "n", "o", "p",
      "q", "r", "s", "t", "u", "v", "w", "x", "y", "z", "{", "}">>

\* The decimal digits.
Digits == <<"0", "1", "2", "3", "4", "5", "6", "7", "8", "9">>

IsDigit(c) == \E i \in 1..Len(Digits) : Digits[i] = c

\* str(n) for an int n >= 0
RECURSIVE Decimal(_)
Decimal(n) ==
    IF n < 10 THEN <<Digits[n + 1]>>
    ELSE Decimal(n \div 10) \o <<Digits[(n % 10) + 1]>>

Rank(c) == CHOOSE i \in 1..Len(CharOrder) : CharOrder[i] = c

Uppers ==
    <<"A", "B", "C", "D", "E", "F", "G", "H", "I", "J", "K", "L", "M", "N",
      "O", "P", "Q", "R", "S", "T", "U", "V", "W", "X", "Y", "Z">>

Lowers ==
    <<"a", "b", "c", "d", "e", "f", "g", "h", "i", "j", "k", "l", "m", "n",
      "o", "p", "q", "r", "s", "t", "u", "v", "w", "x", "y", "z">>

\* str.lower() on one character.
LowerChar(c) ==
    IF \E i \in 1..Len(Uppers) : Uppers[i] = c
    THEN Lowers[CHOOSE i \in 1..Len(Uppers) : Uppers[i] = c]
    ELSE c

\* str.lower()
Lower(s) == [i \in 1..Len(s) |-> LowerChar(s[i])]

IsSpace(c) == c \in {" ", "\n"}

\* str.strip(): leading and trailing whitespace removed.
Strip(s) ==
    LET keep == {i \in 1..Len(s) : ~IsSpace(s[i])}
    IN  IF keep = {} THEN <<>>
        ELSE LET lo == CHOOSE i \in keep : \A j \in keep : i <= j
                 hi == CHOOSE i \in keep : \A j \in keep : i >= j
             IN  SubSeq(s, lo, hi)

\* The character class [\d+] of normalize_phone's pattern [^\d+].
IsPhoneChar(c) == IsDigit(c) \/ c = "+"

\* a < b for str
RECURSIVE StrLess(_, _)
StrLess(a, b) ==
    IF b = <<>> THEN FALSE
    ELSE IF a = <<>> THEN TRUE
    ELSE IF a[1] # b[1] THEN Rank(a[1]) < Rank(b[1])
    ELSE StrLess(Tail(a), Tail(b))

\* sorted(S) for a set of str
RECURSIVE Sorted(_)
Sorted(S) ==
    IF S = {} THEN <<>>
    ELSE LET m == CHOOSE x \in S : \A y \in S \ {x} : StrLess(x, y)
         IN  <<m>> \o Sorted(S \ {m})

\* The separator ", " of the emails field.
Sep == <<",", " ">>

\* sep.join(list)
RECURSIVE Join(_)
Join(list) ==
    IF list = <<>> THEN <<>>
    ELSE IF Len(list) = 1 THEN list[1]
    ELSE list[1] \o Sep \o Join(Tail(list))

\* s.split(", "): the pieces between the occurrences of the separator, left
\* to right; `acc` is the piece being read.
RECURSIVE SplitFrom(_, _)
SplitFrom(s, acc) ==
    IF s = <<>> THEN <<acc>>
    ELSE IF Len(s) >= 2 /\ SubSeq(s, 1, 2) = Sep
         THEN <<acc>> \o SplitFrom(SubSeq(s, 3, Len(s)), <<>>)
    ELSE SplitFrom(Tail(s), Append(acc, s[1]))

Split(s) == SplitFrom(s, <<>>)

\* set(list)
SetOf(list) == {list[i] : i \in 1..Len(list)}

\* A normalization that removes the first special character only.
normalize_phone_FirstOnly(phone) ==
    IF phone = NA THEN phone
    ELSE LET special == {i \in 1..Len(phone) : ~IsPhoneChar(phone[i])}
         IN  IF special = {} THEN phone
             ELSE LET i == CHOOSE i \in special : \A j \in special : i <= j
                  IN  SubSeq(phone, 1, i - 1) \o SubSeq(phone, i + 1, Len(phone))

\* normalize_phone(phone)
normalize_phone(phone) ==
    IF phone = NA THEN phone
    ELSE SelectSeq(phone, IsPhoneChar)

-----------------------------------------------------------------------------
(* deduplicate_businesses *)

\* The composite key of one business (the loop body's first half).
DedupeKey(business) ==
    LET name_key == Strip(Lower(business.name))
        phone_key == normalize_phone(business.phone)
    IN  IF phone_key = NA
        THEN <<name_key, Strip(Lower(business.address))>>
        ELSE <<name_key, phone_key>>

\* A merge that appends the later record's emails to the kept ones.
MergedEmails_Appended(existing, business) ==
    IF business.emails # NA
    THEN IF existing.emails # NA
         THEN existing.emails \o <<",", " ">> \o business.emails
         ELSE business.emails
    ELSE existing.emails

\* A merge in which the later record's emails replace the kept ones.
MergedEmails_Replaced(existing, business) ==
    IF business.emails # NA THEN business.emails ELSE existing.emails

\* The emails of `existing` after `business`, a later record of the same key,
\* is merged into it.
MergedEmails(existing, business) ==
    IF business.emails # NA
    THEN LET existing_emails ==
                 IF existing.emails # NA THEN SetOf(Split(existing.emails)) ELSE {}
             new_emails == SetOf(Split(business.emails))
             merged_emails == existing_emails \cup new_emails
         IN  IF merged_emails # {} THEN Join(Sorted(merged_emails)) ELSE NA
    ELSE existing.emails

\* Whether `key` is in the dict `seen`.
KeySeen(seen, key) == \E j \in 1..Len(seen) : seen[j].key = key

\* A loop body in which the last record of a key replaces the one kept.
DedupeStep_LastWins(d, i) ==
    LET key == DedupeKey(d.objs[i])
    IN  IF \E j \in 1..Len(d.seen) : d.seen[j].key = key
        THEN LET j == CHOOSE j \in 1..Len(d.seen) : d.seen[j].key = key
             IN  [d EXCEPT !.seen[j].ref = i]
        ELSE [d EXCEPT !.seen = Append(d.seen, [key |-> key, ref |-> i])]

\* One pass of the loop body over objs[i]. `objs` are the dict objects of the
\* input list, `seen` is the dict in insertion order: each entry holds its key
\* and a reference (the position in objs) to the object it keeps, so that a
\* merge changes the caller's object too.
DedupeStep(d, i) ==
    LET business == d.objs[i]
        key == DedupeKey(business)
    IN  IF KeySeen(d.seen, key)
        THEN LET j == CHOOSE j \in 1..Len(d.seen) : d.seen[j].key = key
                 ref == d.seen[j].ref
             IN  [d EXCEPT !.objs[ref].emails = MergedEmails(d.objs[ref], business)]
        ELSE [d EXCEPT !.seen = Append(d.seen, [key |-> key, ref |-> i])]

\* list(seen.values())
SeenValues(d) == [j \in 1..Len(d.seen) |-> d.objs[d.seen[j].ref]]

RECURSIVE DedupeFrom(_, _)
DedupeFrom(d, i) ==
    IF i > Len(d.objs) THEN d ELSE DedupeFrom(DedupeStep(d, i), i + 1)

deduplicate_businesses(list) ==
    SeenValues(DedupeFrom([objs |-> list, seen |-> <<>>], 1))

-----------------------------------------------------------------------------
(* The checkpoint file, as the dict it holds *)

NoFile == [exists |-> FALSE]

\* The dict save_checkpoint dumps. The timestamp is left out here: no code
\* reads it back.
Checkpoint(list, idx) ==
    [exists |-> TRUE, index |-> idx, businesses_count |-> Len(list), businesses |-> list]

\* The file after save_checkpoint(checkpoint_file, list, idx).
save_checkpoint(list, idx) == Checkpoint(list, idx)

\* load_checkpoint(checkpoint_file): the dict, or None (NoFile) without a file.
load_checkpoint(f) == IF f.exists THEN f ELSE NoFile

-----------------------------------------------------------------------------
(* main() *)

\* What extract_business_data yields on the detail page at position i of the
\* link list; main sets emails from the harvest (here none: no website).
ItemRecord(i) ==
    [name |-> <<"B">> \o Decimal(i), address |-> NA, phone |-> NA,
     website |-> NA, emails |-> NA]

\* `businesses` after `if RESUME: checkpoint = load_checkpoint(...)`.
RestoredBusinesses(resume, f) ==
    IF resume /\ load_checkpoint(f).exists THEN load_checkpoint(f).businesses ELSE <<>>

\* `start_index` after the same lines.
RestoredIndex(resume, f) ==
    IF resume /\ load_checkpoint(f).exists THEN load_checkpoint(f).index ELSE 0

\* A deadline test that lets one more tick pass.
DeadlineReached_Late(e) == e > Timeout + 1

\* time.time() - start_time > TIMEOUT, at the head of the business loop.
DeadlineReached(e) == e > Timeout

\* A resume that also skips the item at the restored index.
ShouldSkipResumed_OffByOne(idx, start) == start > 0 /\ idx <= start

\* `if start_index > 0 and index < start_index: continue`
ShouldSkipResumed(idx, start) == start > 0 /\ idx < start

\* `if (index + 1) % 10 == 0` (the period is in CheckpointEvery).
CheckpointEvery == 10
PeriodicDue(idx) == (idx + 1) % CheckpointEvery = 0

\* An except clause that saves whatever the list holds.
InterruptSaves_Always(list) == TRUE

\* `if businesses:` of either except clause of main: whether it saves.
InterruptSaves(list) == list # <<>>

\* An except clause that takes the record being the next one for saved.
InterruptIndex_Next(list) == Len(list) + 1

\* The index either except clause passes to save_checkpoint.
InterruptIndex(list) == Len(list)

\* The file after the output block: `if businesses: ... if
\* os.path.exists(checkpoint_file): os.remove(checkpoint_file)`.
CleanupCheckpoint(f, list) == IF list # <<>> THEN NoFile ELSE f

\* The clock after a pause of d ticks, capped one tick past the deadline.
Later(e, d) == IF e + d > Timeout + 1 THEN Timeout + 1 ELSE e + d

NewRun ==
    [resumed |-> FALSE, restored |-> NoFile, cut |-> "none", ended |-> FALSE,
     writes |-> 0, writesAtCut |-> 0, deleted |-> FALSE, visited |-> {},
     consumed |-> 0, lastWrite |-> [written |-> FALSE], attempted |-> {}]

\* The run's record after a checkpoint write of (idx, list).
Wrote(r, idx, list) ==
    [r EXCEPT !.writes = @ + 1,
              !.lastWrite = [written |-> TRUE, index |-> idx,
                             count |-> Len(list), consumed |-> r.consumed]]

\* The feeds: `total` detail links, of which the one at position `bad` (none
\* when bad = total) never yields a record.
Feeds == {[total |-> t, bad |-> b] : t \in 0..MaxItems, b \in 0..MaxItems}

MainInit ==
    /\ pc = "idle"
    /\ feed \in {f \in Feeds : f.bad <= f.total}
    /\ businesses = <<>>
    /\ start_index = 0
    /\ index = 0
    /\ elapsed = 0
    /\ file = NoFile
    /\ run = NewRun

\* main() up to `browser = None`: the arguments are parsed, the clock starts,
\* the checkpoint is read when --resume is given.
StartRun(resume) ==
    /\ pc = "idle"
    /\ pc' = "setup"
    /\ elapsed' = 0
    /\ businesses' = RestoredBusinesses(resume, file)
    /\ start_index' = RestoredIndex(resume, file)
    /\ index' = 0
    /\ run' = [NewRun EXCEPT !.resumed = resume /\ file.exists,
                             !.restored = IF resume THEN file ELSE NoFile,
                             !.consumed = RestoredIndex(resume, file),
                             !.attempted = run.attempted]
    /\ UNCHANGED <<feed, file, scroll, dedupe, ckpt, restVars>>

\* The browser is launched, the search run, the feed scrolled and the detail
\* links collected; d ticks pass.
Setup(d) ==
    /\ pc = "setup"
    /\ pc' = "loop"
    /\ elapsed' = Later(elapsed, d)
    /\ index' = 0
    /\ UNCHANGED <<feed, businesses, start_index, file, run, scroll, dedupe, ckpt, restVars>>

\* The for loop finds no further link.
LoopExhausted ==
    /\ pc = "loop"
    /\ index >= feed.total
    /\ pc' = "closing"
    /\ UNCHANGED <<feed, businesses, start_index, index, elapsed, file, run, scroll, dedupe, ckpt, restVars>>

\* `if time.time() - start_time > TIMEOUT: ... break`
LoopDeadline ==
    /\ pc = "loop"
    /\ index < feed.total
    /\ DeadlineReached(elapsed)
    /\ pc' = "closing"
    /\ run' = [run EXCEPT !.cut = "deadline", !.writesAtCut = run.writes]
    /\ UNCHANGED <<feed, businesses, start_index, index, elapsed, file, scroll, dedupe, ckpt, restVars>>

\* `if start_index > 0 and index < start_index: continue`
LoopSkipResumed ==
    /\ pc = "loop"
    /\ index < feed.total
    /\ ~DeadlineReached(elapsed)
    /\ ShouldSkipResumed(index, start_index)
    /\ index' = index + 1
    /\ UNCHANGED <<pc, feed, businesses, start_index, elapsed, file, run, scroll, dedupe, ckpt, restVars>>

\* The body of the loop on the link at `index`, d ticks long: the page is
\* opened and, unless it is the feed's bad one (whose details do not load, or
\* whose record is rejected, or which raises: `how`), its record is appended
\* and the periodic checkpoint written when due.
VisitBusiness(d, how) ==
    /\ pc = "loop"
    /\ index < feed.total
    /\ ~DeadlineReached(elapsed)
    /\ ~ShouldSkipResumed(index, start_index)
    /\ elapsed' = Later(elapsed, d)
    /\ index' = index + 1
    /\ LET seenRun == [run EXCEPT !.visited = @ \cup {index}, !.consumed = index + 1,
                                  !.attempted = @ \cup {index}]
           appended == Append(businesses, ItemRecord(index))
       IN  IF index = feed.bad
           THEN /\ how \in {"noload", "invalid", "error"}
                /\ businesses' = businesses
                /\ file' = file
                /\ run' = seenRun
           ELSE /\ how = "ok"
                /\ businesses' = appended
                /\ IF PeriodicDue(index)
                   THEN /\ file' = save_checkpoint(appended, index + 1)
                        /\ run' = Wrote(seenRun, index + 1, appended)
                   ELSE /\ file' = file
                        /\ run' = seenRun
    /\ UNCHANGED <<pc, feed, start_index, scroll, dedupe, ckpt, restVars>>

\* `finally: if browser: browser.close()` and the end of the with block.
CloseBrowser ==
    /\ pc = "closing"
    /\ pc' = "dedupe"
    /\ UNCHANGED <<feed, businesses, start_index, index, elapsed, file, run, scroll, dedupe, ckpt, restVars>>

\* `businesses = deduplicate_businesses(businesses)`
Deduplicate ==
    /\ pc = "dedupe"
    /\ pc' = "output"
    /\ businesses' = deduplicate_businesses(businesses)
    /\ UNCHANGED <<feed, start_index, index, elapsed, file, run, scroll, dedupe, ckpt, restVars>>

\* The sample, the CSV and JSON files, the summary, the cleanup of the
\* checkpoint; main returns.
WriteOutput ==
    /\ pc = "output"
    /\ pc' = "idle"
    /\ file' = CleanupCheckpoint(file, businesses)
    /\ run' = [run EXCEPT !.ended = TRUE,
                          !.deleted = file.exists /\ ~CleanupCheckpoint(file, businesses).exists]
    /\ UNCHANGED <<feed, businesses, start_index, index, elapsed, scroll, dedupe, ckpt, restVars>>

\* An except clause of main: `if businesses: save_checkpoint(checkpoint_file,
\* businesses, len(businesses))`, and main ends.
Interrupted(kind) ==
    LET r == [run EXCEPT !.cut = kind, !.writesAtCut = run.writes, !.ended = TRUE]
    IN  IF InterruptSaves(businesses)
        THEN /\ file' = save_checkpoint(businesses, InterruptIndex(businesses))
             /\ run' = Wrote(r, InterruptIndex(businesses), businesses)
        ELSE /\ file' = file
             /\ run' = r

\* KeyboardInterrupt while main is anywhere inside its try block.
Cancel ==
    /\ pc \in {"setup", "loop", "closing", "dedupe", "output"}
    /\ pc' = "idle"
    /\ Interrupted("cancel")
    /\ UNCHANGED <<feed, businesses, start_index, index, elapsed, scroll, dedupe, ckpt, restVars>>

\* An exception that reaches `except Exception` of main: raised by the setup
\* (no search box, no results), by closing the browser or by writing the
\* output files.
Fatal ==
    /\ pc \in {"setup", "closing", "output"}
    /\ pc' = "idle"
    /\ Interrupted("fatal")
    /\ UNCHANGED <<feed, businesses, start_index, index, elapsed, scroll, dedupe, ckpt, restVars>>

Next ==
    \/ \E resume \in BOOLEAN : StartRun(resume)
    \/ \E d \in 0..(Timeout + 1) : Setup(d)
    \/ LoopExhausted
    \/ LoopDeadline
    \/ LoopSkipResumed
    \/ \E d \in 0..1, how \in {"ok", "noload", "invalid", "error"} : VisitBusiness(d, how)
    \/ CloseBrowser
    \/ Deduplicate
    \/ WriteOutput
    \/ Cancel
    \/ Fatal

\* The other components stand still while main runs.
Idle == [pc |-> "off"]

\* main() stands still while a function of its is run alone.
MainOff ==
    /\ pc = "off"
    /\ feed = [total |-> 0, bad |-> 0]
    /\ businesses = <<>>
    /\ start_index = 0
    /\ index = 0
    /\ elapsed = 0
    /\ file = NoFile
    /\ run = NewRun

RestIdle ==
    /\ visit = Idle
    /\ retry = Idle
    /\ normalize = Idle
    /\ validate = Idle
    /\ resolve = Idle

Init ==
    /\ MainInit
    /\ scroll = Idle
    /\ dedupe = Idle
    /\ ckpt = Idle
    /\ RestIdle



Spec == Init /\ [][Next]_vars

-----------------------------------------------------------------------------
(* Properties of main() *)

\* The checkpoint writes made since the run was cut short.
WritesSinceCut == run.writes - run.writesAtCut

\* C1: a run that ended after the deadline cut its business loop short, after
\* a cancellation or after a fatal error, with at least one record
\* accumulated, has written a checkpoint between that event and its end.
C1_LastSaveOnEveryTermination ==
    (run.ended /\ run.cut \in {"deadline", "cancel", "fatal"} /\ businesses # <<>>)
        => WritesSinceCut >= 1

\* C2: a run cut short by the deadline, by cancellation or by a fatal error
\* has not deleted the checkpoint file.
C2_OnlySuccessRemovesCheckpoint ==
    run.cut \in {"deadline", "cancel", "fatal"} => ~run.deleted

\* C3: the index of the last checkpoint written is the number of source
\* items consumed when it was written.
C3_IndexIsItemsConsumed ==
    run.lastWrite.written => run.lastWrite.index = run.lastWrite.consumed

\* C4: a run ended by a cancellation or a fatal error wrote exactly one
\* checkpoint between the interruption and its end if it held at least one
\* record, and none if it held no record.
C4_InterruptSavesOnce ==
    (run.ended /\ run.cut \in {"cancel", "fatal"})
        => WritesSinceCut = (IF businesses # <<>> THEN 1 ELSE 0)

\* C4's case: a cancelled run that held records, and the one checkpoint it
\* wrote.
C4_Witness ==
    /\ run.ended
    /\ run.cut = "cancel"
    /\ businesses # <<>>
    /\ WritesSinceCut = 1
    /\ file.exists

\* Whether `p` is a prefix of `q`.
IsPrefix(p, q) == Len(p) <= Len(q) /\ SubSeq(q, 1, Len(p)) = p

\* C5: in a run that resumed from a checkpoint, the index is the
\* checkpoint's, the list is the checkpoint's when the run starts and grows
\* from it, no position below the checkpoint's index is visited, and the
\* first position visited is the one at that index.
C5_ResumeContinuesAtIndex ==
    run.resumed =>
        /\ start_index = run.restored.index
        /\ pc = "setup" => businesses = run.restored.businesses
        /\ pc \in {"setup", "loop", "closing", "dedupe"}
               => IsPrefix(run.restored.businesses, businesses)
        /\ \A p \in run.visited : p >= run.restored.index
        /\ run.visited # {} => run.restored.index \in run.visited

\* C5's case: a resumed run that has gone past the restored index and added
\* records to the restored list.
C5_Witness ==
    /\ run.resumed
    /\ run.restored.index > 0
    /\ Cardinality(run.visited) >= 2
    /\ Len(businesses) > Len(run.restored.businesses)
    /\ pc = "loop"

\* C21: once the deadline is exceeded (the clock is past it at the head of
\* the business loop) no further detail page is visited and no link is
\* skipped: the loop ends, by its break or at the end of the list, or the run
\* is cancelled; no error is raised by the loop and the list of records is
\* left as it is.
C21_DeadlineStopsBusinessLoop ==
    [][(pc = "loop" /\ elapsed > Timeout)
          => /\ run'.visited = run.visited
             /\ index' = index
             /\ businesses' = businesses
             /\ \/ pc' = "closing"
                \/ pc' = "idle" /\ run'.cut = "cancel"]_vars

\* C21's case: the deadline ended the loop of a resumed run that had added
\* records to the restored ones, with links left to visit, and the list is
\* the one the loop held.
C21_Witness ==
    /\ pc = "closing"
    /\ run.cut = "deadline"
    /\ run.resumed
    /\ index < feed.total
    /\ Cardinality(run.visited) >= 2
    /\ Len(businesses) > Len(run.restored.businesses)
    /\ elapsed > Timeout

\* C25: whatever runs came before, the checkpoint file holds the length of
\* its list as businesses_count, that length is at most its index, and its
\* index is at most the number of links that the runs so far have visited;
\* the links a resumed run skips (those below its start index) have all been
\* visited by an earlier run.
C25_CheckpointWithinConsumed ==
    /\ file.exists =>
           /\ file.businesses_count = Len(file.businesses)
           /\ Len(file.businesses) <= file.index
           /\ file.index <= Cardinality(run.attempted)
    /\ run.lastWrite.written =>
           /\ run.lastWrite.count <= run.lastWrite.index
           /\ run.lastWrite.index <= run.lastWrite.consumed
    /\ pc \in {"setup", "loop", "closing", "dedupe", "output"} =>
           \A p \in 0..(start_index - 1) : p \in run.attempted

\* C25's case: a run resumed from the checkpoint of an interrupted run whose
\* index was below the number of links visited (a link had given no record)
\* has skipped the links below that index and written a periodic checkpoint
\* of its own.
C25_Witness ==
    /\ pc = "loop"
    /\ run.resumed
    /\ run.restored.index > 0
    /\ run.restored.index < feed.bad
    /\ run.restored.index = Len(run.restored.businesses)
    /\ run.lastWrite.written
    /\ run.lastWrite.index = CheckpointEvery
    /\ file.exists
    /\ file.index = CheckpointEvery

\* C18: when the visit of a link has brought the number of links consumed to
\* a multiple of 10, a checkpoint holding the whole list has been written at
\* that number, whether the link gave a record or not.
C18_CheckpointEveryTenConsumed ==
    (/\ pc = "loop"
     /\ index > 0
     /\ index % CheckpointEvery = 0
     /\ (index - 1) \in run.visited
     /\ run.consumed = index)
        => /\ run.lastWrite.written
           /\ run.lastWrite.consumed = index
           /\ run.lastWrite.index = index
           /\ run.lastWrite.count = Len(businesses)

-----------------------------------------------------------------------------
(* scroll_results_panel *)

\* The heights the panel reports are 0..MaxHeight.
MaxHeight == 1

\* `for scroll_attempt in range(100)`
MaxScrolls == 100

\* A loop that takes two unchanged readings for the end of the feed.
StabilityReached_Two(n) == n >= 2

\* `if no_change_count >= 3`
StabilityReached(n) == n >= 3

\* A deadline test that lets one more tick pass.
ScrollDeadlineReached_Late(e) == e > Timeout + 1

\* `if time.time() - start_time > timeout`, at the head of the scroll loop.
ScrollDeadlineReached(e) == e > Timeout

\* A counter that a changed reading leaves as it is.
CountAfterChange_Kept(n) == n

\* `no_change_count = 0`, on a reading that differs from prev_height.
CountAfterChange(n) == 0

\* A count that a changed reading leaves as it is.
ProductiveCount_Uncounted(n) == n

\* `scroll_count += 1`, on a reading that differs from prev_height.
ProductiveCount(n) == n + 1

\* A sentinel that ends the loop only once a reading was unchanged.
SentinelStops_WhenUnchanged(end_text, no_change_count) == end_text /\ no_change_count > 0

\* `if end_text: ... break`
SentinelStops(end_text, no_change_count) == end_text

\* The call: the locals before the loop. `last`, `eqRun` and `readings` record
\* the readings for the properties: the value last seen (0, as prev_height,
\* before any reading), the number of equal values the sequence 0, r1, r2, ...
\* ends with, and the number of readings; `changed` is the number of readings
\* that differ from the value seen before them; `sentinel` is whether the
\* document held the end-of-list message after the last scroll.
ScrollEntry(e, panel) ==
    [pc |-> "entry", panel |-> panel, elapsed |-> e, prev_height |-> 0,
     scroll_count |-> 0, no_change_count |-> 0, scroll_attempt |-> 0,
     stop |-> "none", triggered |-> 0, last |-> 0, eqRun |-> 1, readings |-> 0,
     changed |-> 0, sentinel |-> FALSE, result |-> 0]

ScrollInit ==
    /\ scroll \in {ScrollEntry(e, panel) : e \in 0..(Timeout + 1), panel \in BOOLEAN}
    /\ pc = "off"
    /\ feed = [total |-> 0, bad |-> 0]
    /\ businesses = <<>>
    /\ start_index = 0
    /\ index = 0
    /\ elapsed = 0
    /\ file = NoFile
    /\ run = NewRun
    /\ dedupe = Idle
    /\ ckpt = Idle
    /\ RestIdle

\* scroll_results_panel returns scroll_count.
Returned(sc, why) == [sc EXCEPT !.pc = "done", !.stop = why, !.result = sc.scroll_count]

\* `if not results_panel: ... return 0`
ScrollNoPanel ==
    /\ scroll.pc = "entry"
    /\ ~scroll.panel
    /\ scroll' = [scroll EXCEPT !.pc = "done", !.stop = "nopanel", !.result = 0]
    /\ UNCHANGED <<mainVars, dedupe, ckpt, restVars>>

\* The locals are set and the loop is entered.
ScrollEnter ==
    /\ scroll.pc = "entry"
    /\ scroll.panel
    /\ scroll' = [scroll EXCEPT !.pc = "running"]
    /\ UNCHANGED <<mainVars, dedupe, ckpt, restVars>>

\* range(100) is exhausted.
ScrollCap ==
    /\ scroll.pc = "running"
    /\ scroll.scroll_attempt >= MaxScrolls
    /\ scroll' = Returned(scroll, "cap")
    /\ UNCHANGED <<mainVars, dedupe, ckpt, restVars>>

\* The deadline test at the head of an iteration breaks the loop.
ScrollDeadline ==
    /\ scroll.pc = "running"
    /\ scroll.scroll_attempt < MaxScrolls
    /\ ScrollDeadlineReached(scroll.elapsed)
    /\ scroll' = Returned(scroll, "deadline")
    /\ UNCHANGED <<mainVars, dedupe, ckpt, restVars>>

\* The locals after the reading `curr_height` has been compared: the loop
\* breaks (stable) on the third unchanged reading in a row, before prev_height
\* is assigned and before the sentinel is looked for; otherwise the sentinel
\* `end_text`, when the query finds it, breaks the loop.
AfterReading(sc, curr_height, end_text) ==
    LET read == [sc EXCEPT !.readings = @ + 1,
                           !.eqRun = IF curr_height = sc.last THEN @ + 1 ELSE 1,
                           !.changed = IF curr_height = sc.last THEN @ ELSE @ + 1,
                           !.last = curr_height,
                           !.sentinel = end_text]
    IN  IF curr_height = sc.prev_height
        THEN LET counted == [read EXCEPT !.no_change_count = @ + 1]
             IN  IF StabilityReached(counted.no_change_count)
                 THEN Returned(counted, "stable")
                 ELSE IF SentinelStops(end_text, counted.no_change_count)
                      THEN Returned([counted EXCEPT !.prev_height = curr_height], "sentinel")
                      ELSE [counted EXCEPT !.prev_height = curr_height]
        ELSE LET moved == [read EXCEPT !.no_change_count = CountAfterChange(@),
                                        !.scroll_count = ProductiveCount(@),
                                        !.prev_height = curr_height]
             IN  IF SentinelStops(end_text, moved.no_change_count)
                 THEN Returned(moved, "sentinel")
                 ELSE moved

\* One iteration past the deadline test, d ticks long: the panel is scrolled,
\* its height read and compared, the sentinel looked for. `fault` says which
\* call raises: the scroll or the reading (the except clause breaks the loop)
\* or the sentinel query (swallowed: as if no sentinel were there).
ScrollIteration(d, curr_height, end_text, fault) ==
    /\ scroll.pc = "running"
    /\ scroll.scroll_attempt < MaxScrolls
    /\ ~ScrollDeadlineReached(scroll.elapsed)
    /\ LET begun == [scroll EXCEPT !.scroll_attempt = @ + 1, !.triggered = @ + 1,
                                   !.elapsed = Later(@, d), !.sentinel = FALSE]
       IN  scroll' =
               CASE fault \in {"scroll", "read"} -> Returned(begun, "error")
                 [] fault = "query" -> AfterReading(begun, curr_height, FALSE)
                 [] OTHER -> AfterReading(begun, curr_height, end_text)
    /\ UNCHANGED <<mainVars, dedupe, ckpt, restVars>>

ScrollNext ==
    \/ ScrollNoPanel
    \/ ScrollEnter
    \/ ScrollCap
    \/ ScrollDeadline
    \/ \E d \in 0..1, h \in 0..MaxHeight, e \in BOOLEAN,
          fault \in {"none", "scroll", "read", "query"} : ScrollIteration(d, h, e, fault)

SpecScroll == ScrollInit /\ [][ScrollNext]_vars

\* The number of equal readings the readings end with.
SameRun == IF scroll.eqRun < scroll.readings THEN scroll.eqRun ELSE scroll.readings

\* C7, as stated: the loop has stopped for stability exactly when the last
\* three height readings are equal.
C7_StopsAtThreeEqualReadings ==
    scroll.pc \in {"running", "done"} => (scroll.stop = "stable" <=> SameRun >= 3)

\* C7, amended: the loop has stopped for stability exactly when the last three
\* readings each equal the value before them, that is when the sequence 0, r1,
\* r2, ... ends with four equal values; the counter is the number of such
\* readings at the end of the sequence, so a reading that differs from the one
\* before it sets it to zero.
C7_StopsAfterThreeUnchanged ==
    scroll.pc \in {"running", "done"} =>
        /\ scroll.stop = "stable" <=> scroll.eqRun >= 4
        /\ scroll.no_change_count = scroll.eqRun - 1

\* C7's case: a fluctuation after two unchanged readings (the counter is back
\* at zero after six readings and the loop still runs), and a later stop.
C7_Witness ==
    /\ scroll.stop = "stable"
    /\ scroll.readings >= 7
    /\ scroll.scroll_count >= 2
    /\ scroll.last > 0

\* C8: an iteration that starts past the deadline ends the loop, with no
\* error, no further scroll and no change to the count it returns, whatever
\* the stability counter holds and whether or not the sentinel is there.
C8_DeadlineFirst ==
    [][(scroll.pc = "running" /\ scroll.elapsed > Timeout)
          => /\ scroll'.pc = "done"
             /\ scroll'.stop \in {"deadline", "cap"}
             /\ scroll'.triggered = scroll.triggered
             /\ scroll'.result = scroll.scroll_count]_vars

\* C8's case: the deadline ended a loop that was one unchanged reading away
\* from the stability stop.
C8_Witness ==
    /\ scroll.stop = "deadline"
    /\ scroll.no_change_count = 2
    /\ scroll.triggered >= 3
    /\ scroll.scroll_attempt < MaxScrolls

\* C19: when the document holds the end-of-list message after a scroll, the
\* loop has ended in that iteration, whatever the stability counter holds:
\* it never runs on with the message seen.
C19_SentinelEndsLoop ==
    (scroll.pc # "off" /\ scroll.sentinel) =>
        /\ scroll.pc = "done"
        /\ scroll.stop \in {"sentinel", "stable"}
        /\ scroll.result = scroll.scroll_count

\* C19's case: the message ended a loop whose readings were still changing
\* (the stability counter is zero after two productive scrolls).
C19_Witness ==
    /\ scroll.pc = "done"
    /\ scroll.stop = "sentinel"
    /\ scroll.sentinel
    /\ scroll.no_change_count = 0
    /\ scroll.scroll_count >= 2

\* C23: the call returns, whatever the panel reports: while it has not
\* returned a step is always there to take, every step of the loop either
\* returns or triggers one more scroll, and no more than MaxScrolls scrolls
\* are triggered; and the count it keeps and returns is the number of
\* readings that differ from the reading before them, the first reading
\* being compared with the height 0 the call starts from.
C23_LoopEndsCountingChanges ==
    /\ [](scroll.pc \in {"entry", "running"} => ENABLED ScrollNext)
    /\ [][scroll.pc = "running"
             => \/ scroll'.pc = "done"
                \/ /\ scroll'.pc = "running"
                   /\ scroll'.triggered = scroll.triggered + 1]_vars
    /\ [](scroll.pc # "off" =>
              /\ scroll.triggered <= MaxScrolls
              /\ scroll.scroll_count = scroll.changed
              /\ scroll.changed <= scroll.readings
              /\ scroll.readings <= scroll.triggered
              /\ scroll.pc = "done" => scroll.result = scroll.changed)

\* C23's case: the height never stood still and the message never showed;
\* the cap ended the loop after MaxScrolls scrolls, each of them productive.
C23_Witness ==
    /\ scroll.pc = "done"
    /\ scroll.stop = "cap"
    /\ scroll.triggered = MaxScrolls
    /\ scroll.result = MaxScrolls
    /\ ~scroll.sentinel

-----------------------------------------------------------------------------
(* deduplicate_businesses, step by step *)

\* The longest list deduplicated.
MaxRecs == 3

\* The strings of the records deduplicated.
AcmeCafe == <<"A", "c", "m", "e", " ", "C", "a", "f", "e">>
AcmeCafeLower == <<"a", "c", "m", "e", " ", "c", "a", "f", "e">>
AcmeCafeUpper == <<" ", "A", "C", "M", "E", " ", "C", "A", "F", "E", " ">>
Bar == <<"B", "a", "r">>
PhoneParens == <<"(", "5", "5", "5", ")", " ", "1", "2", "3", "-", "4", "5", "6", "7">>
PhoneDashes == <<"5", "5", "5", "-", "1", "2", "3", "-", "4", "5", "6", "7">>
MainSt1 == <<"1", " ", "M", "a", "i", "n", " ", "S", "t">>
MainSt1Lower == <<" ", "1", " ", "m", "a", "i", "n", " ", "s", "t">>
MainSt2 == <<"2", " ", "M", "a", "i", "n", " ", "S", "t">>
SiteAcme == <<"h", "t", "t", "p", ":", "/", "/", "a", "c", "m", "e", ".", "c", "o", "m">>
SiteA == <<"h", "t", "t", "p", ":", "/", "/", "a", ".", "c", "o">>
EmailA == <<"a", "@", "x", ".", "c", "o", "m">>
EmailB == <<"b", "@", "x", ".", "c", "o", "m">>
EmailC == <<"c", "@", "x", ".", "c", "o", "m">>
EmailsAB == <<"a", "@", "x", ".", "c", "o", "m", ",", " ", "b", "@", "x", ".", "c", "o", "m">>
EmailsAC == <<"a", "@", "x", ".", "c", "o", "m", ",", " ", "c", "@", "x", ".", "c", "o", "m">>

Business(n, a, ph, w, e) ==
    [name |-> n, address |-> a, phone |-> ph, website |-> w, emails |-> e]

\* The records the lists are drawn from: names and phones that differ in
\* case, spacing and punctuation only, absent phones with and without equal
\* addresses, and emails fields as main writes them (absent, or sorted and
\* joined).
DedupePool ==
    { Business(AcmeCafe, MainSt1, PhoneParens, SiteAcme, EmailA),
      Business(AcmeCafeLower, NA, PhoneDashes, NA, EmailB),
      Business(AcmeCafeUpper, MainSt2, PhoneDashes, SiteA, NA),
      Business(AcmeCafe, MainSt1, NA, NA, EmailsAC),
      Business(AcmeCafeLower, MainSt1Lower, NA, SiteA, NA),
      Business(AcmeCafe, MainSt2, NA, NA, EmailB),
      Business(Bar, MainSt1, PhoneDashes, NA, EmailC),
      Business(Bar, NA, NA, NA, NA) }

RECURSIVE ListsUpTo(_, _)
ListsUpTo(S, n) ==
    IF n = 0 THEN {<<>>}
    ELSE LET shorter == ListsUpTo(S, n - 1)
         IN  shorter \cup {Append(l, x) : l \in {m \in shorter : Len(m) = n - 1}, x \in S}

DedupeInit ==
    /\ dedupe \in {[pc |-> "loop", input |-> l, objs |-> l, seen |-> <<>>, i |-> 1,
                    out |-> <<>>] : l \in ListsUpTo(DedupePool, MaxRecs)}
    /\ pc = "off"
    /\ feed = [total |-> 0, bad |-> 0]
    /\ businesses = <<>>
    /\ start_index = 0
    /\ index = 0
    /\ elapsed = 0
    /\ file = NoFile
    /\ run = NewRun
    /\ scroll = Idle
    /\ ckpt = Idle
    /\ RestIdle

\* One pass of `for business in businesses`.
DedupeLoop ==
    /\ dedupe.pc = "loop"
    /\ dedupe.i <= Len(dedupe.objs)
    /\ dedupe' = [DedupeStep(dedupe, dedupe.i) EXCEPT !.i = @ + 1]
    /\ UNCHANGED <<mainVars, scroll, ckpt, restVars>>

\* `return list(seen.values())`
DedupeReturn ==
    /\ dedupe.pc = "loop"
    /\ dedupe.i > Len(dedupe.objs)
    /\ dedupe' = [dedupe EXCEPT !.pc = "done", !.out = SeenValues(dedupe)]
    /\ UNCHANGED <<mainVars, scroll, ckpt, restVars>>

DedupeNext ==
    \/ DedupeLoop
    \/ DedupeReturn

SpecDedupe == DedupeInit /\ [][DedupeNext]_vars

\* The position of the first record of the input with the key of `r`.
FirstWithKey(r) ==
    CHOOSE i \in 1..Len(dedupe.input) :
        /\ DedupeKey(dedupe.input[i]) = DedupeKey(r)
        /\ \A j \in 1..(i - 1) : DedupeKey(dedupe.input[j]) # DedupeKey(r)

\* C9: the list returned holds one record for each composite key of the
\* input, in the order in which the keys first occur in the input, each with
\* the name, address, phone and website of the first input record of its key.
C9_DedupeFirstOccurrence ==
    dedupe.pc = "done" =>
        LET in == dedupe.input
            out == dedupe.out
        IN  /\ {DedupeKey(out[j]) : j \in 1..Len(out)} = {DedupeKey(in[i]) : i \in 1..Len(in)}
            /\ \A j, k \in 1..Len(out) : j # k => DedupeKey(out[j]) # DedupeKey(out[k])
            /\ \A j, k \in 1..Len(out) : j < k => FirstWithKey(out[j]) < FirstWithKey(out[k])
            /\ \A j \in 1..Len(out) :
                   LET first == in[FirstWithKey(out[j])]
                   IN  /\ out[j].name = first.name
                       /\ out[j].address = first.address
                       /\ out[j].phone = first.phone
                       /\ out[j].website = first.website

\* C9's case: three records of two keys, the later record of the first key
\* differing from the first one in name, address, phone and website.
C9_Witness ==
    /\ dedupe.pc = "done"
    /\ Len(dedupe.input) = 3
    /\ Len(dedupe.out) = 2
    /\ DedupeKey(dedupe.input[3]) = DedupeKey(dedupe.input[1])
    /\ dedupe.input[3].name # dedupe.input[1].name
    /\ dedupe.input[3].address # dedupe.input[1].address
    /\ dedupe.input[3].phone # dedupe.input[1].phone
    /\ dedupe.input[3].website # dedupe.input[1].website
    /\ dedupe.out[1].website = dedupe.input[1].website

\* The claim's test of two records being one business: equal names after
\* trimming and lower-casing, and equal phones after normalization or, both
\* phones absent, equal addresses after trimming and lower-casing.
SameBusiness(a, b) ==
    /\ Strip(Lower(a.name)) = Strip(Lower(b.name))
    /\ IF a.phone = NA \/ b.phone = NA
       THEN /\ a.phone = NA
            /\ b.phone = NA
            /\ Strip(Lower(a.address)) = Strip(Lower(b.address))
       ELSE normalize_phone(a.phone) = normalize_phone(b.phone)

\* The email set of a record.
EmailSet(r) == IF r.emails = NA THEN {} ELSE SetOf(Split(r.emails))

RECURSIVE UnionOf(_)
UnionOf(sets) ==
    IF sets = {} THEN {}
    ELSE LET x == CHOOSE x \in sets : TRUE IN x \cup UnionOf(sets \ {x})

\* C10: two records of the input that are one business by the claim's test
\* come out as one record, and its emails field is the sorted, comma-joined
\* union of the email sets of the input's records of that key, or the absent
\* sentinel when the union is empty.
C10_MergedEmailsAreSortedUnion ==
    dedupe.pc = "done" =>
        LET in == dedupe.input
            out == dedupe.out
        IN  \A a, b \in 1..Len(in) :
                (a < b /\ SameBusiness(in[a], in[b])) =>
                    \E j \in 1..Len(out) :
                        /\ SameBusiness(out[j], in[a])
                        /\ \A k \in 1..Len(out) : SameBusiness(out[k], in[a]) => k = j
                        /\ LET union == UnionOf({EmailSet(in[i]) : i \in
                                   {i \in 1..Len(in) : DedupeKey(in[i]) = DedupeKey(in[a])}})
                           IN  out[j].emails = IF union = {} THEN NA ELSE Join(Sorted(union))

\* C10's case: the spec's two records of Acme Cafe, the later email sorting
\* first, come out as one record with both emails.
C10_Witness ==
    /\ dedupe.pc = "done"
    /\ Len(dedupe.input) = 2
    /\ dedupe.input[1].name = AcmeCafeLower
    /\ dedupe.input[1].phone = PhoneDashes
    /\ dedupe.input[1].emails = EmailB
    /\ dedupe.input[2].name = AcmeCafe
    /\ dedupe.input[2].phone = PhoneParens
    /\ dedupe.input[2].emails = EmailA
    /\ Len(dedupe.out) = 1
    /\ dedupe.out[1].emails = EmailsAB

\* C11: two records of one composite key come out as a single record whose
\* email set is the same whichever of the two comes first in the list.
C11_MergeCommutesOnEmails ==
    (/\ dedupe.pc = "done"
     /\ Len(dedupe.input) = 2
     /\ DedupeKey(dedupe.input[1]) = DedupeKey(dedupe.input[2]))
        => LET swapped == deduplicate_businesses(<<dedupe.input[2], dedupe.input[1]>>)
           IN  /\ Len(dedupe.out) = 1
               /\ Len(swapped) = 1
               /\ EmailSet(dedupe.out[1]) = EmailSet(swapped[1])
               /\ EmailSet(dedupe.out[1]) =
                      EmailSet(dedupe.input[1]) \cup EmailSet(dedupe.input[2])

\* C11's case: two records of one key with different emails, which the other
\* order would keep under the other record's name.
C11_Witness ==
    /\ dedupe.pc = "done"
    /\ Len(dedupe.input) = 2
    /\ DedupeKey(dedupe.input[1]) = DedupeKey(dedupe.input[2])
    /\ dedupe.input[1].emails = EmailA
    /\ dedupe.input[2].emails = EmailB
    /\ dedupe.out[1].name = dedupe.input[1].name
    /\ deduplicate_businesses(<<dedupe.input[2], dedupe.input[1]>>)[1].name
           = dedupe.input[2].name
    /\ dedupe.input[1].name # dedupe.input[2].name
    /\ EmailSet(dedupe.out[1]) = {EmailA, EmailB}

-----------------------------------------------------------------------------
(* save_checkpoint and load_checkpoint on the text of the file *)

\* The most records in a list saved.
MaxSaved == 2

Key_timestamp == <<"t", "i", "m", "e", "s", "t", "a", "m", "p">>
Key_index == <<"i", "n", "d", "e", "x">>
Key_businesses_count == <<"b", "u", "s", "i", "n", "e", "s", "s", "e", "s", "_", "c", "o", "u", "n", "t">>
Key_businesses == <<"b", "u", "s", "i", "n", "e", "s", "s", "e", "s">>
Key_name == <<"n", "a", "m", "e">>
Key_address == <<"a", "d", "d", "r", "e", "s", "s">>
Key_phone == <<"p", "h", "o", "n", "e">>
Key_website == <<"w", "e", "b", "s", "i", "t", "e">>
Key_emails == <<"e", "m", "a", "i", "l", "s">>

\* datetime.now().isoformat(), at some moment.
Timestamp == <<"2", "0", "2", "6", "-", "0", "1", "-", "0", "2", "T", "0", "3", ":", "0", "4", ":", "0", "5", ".", "6", "7", "8", "9", "0", "1">>

\* Tagged JSON values: a str, an int, a list of values, a dict as its
\* (key, value) pairs in insertion order.
JStr(v) == [t |-> "str", v |-> v]
JInt(v) == [t |-> "int", v |-> v]
JList(v) == [t |-> "list", v |-> v]
JDict(v) == [t |-> "dict", v |-> v]

\* The dict of one business, its keys in the order extract_business_data
\* inserts them.
BusinessDict(b) ==
    JDict(<<<<Key_name, JStr(b.name)>>, <<Key_address, JStr(b.address)>>,
            <<Key_phone, JStr(b.phone)>>, <<Key_website, JStr(b.website)>>,
            <<Key_emails, JStr(b.emails)>>>>)

\* The dict `checkpoint` that save_checkpoint builds.
CheckpointDict(list, idx) ==
    JDict(<<<<Key_timestamp, JStr(Timestamp)>>,
            <<Key_index, JInt(idx)>>,
            <<Key_businesses_count, JInt(Len(list))>>,
            <<Key_businesses, JList([i \in 1..Len(list) |-> BusinessDict(list[i])])>>>>)

\* An encoder that escapes the quote and the line break but not the backslash.
EscapeChar_NoBackslash(c) ==
    CASE c = "\"" -> <<"\\", "\"">>
      [] c = "\n" -> <<"\\", "n">>
      [] OTHER -> <<c>>

\* json's encoding of one character of a str under ensure_ascii=False.
EscapeChar(c) ==
    CASE c = "\"" -> <<"\\", "\"">>
      [] c = "\\" -> <<"\\", "\\">>
      [] c = "\n" -> <<"\\", "n">>
      [] OTHER -> <<c>>

RECURSIVE Escaped(_)
Escaped(s) == IF s = <<>> THEN <<>> ELSE EscapeChar(s[1]) \o Escaped(Tail(s))

\* The text of a str.
DumpString(s) == <<"\"">> \o Escaped(s) \o <<"\"">>

\* A line break and the indentation of nesting level n under indent=2.
RECURSIVE Spaces(_)
Spaces(n) == IF n = 0 THEN <<>> ELSE <<" ">> \o Spaces(n - 1)

NewLine(level) == <<"\n">> \o Spaces(2 * level)

\* The text of a value at nesting level `level` under json.dump(..., indent=2).
RECURSIVE DumpValue(_, _), DumpItems(_, _, _), DumpMembers(_, _, _)
DumpValue(val, level) ==
    CASE val.t = "str" -> DumpString(val.v)
      [] val.t = "int" -> Decimal(val.v)
      [] val.t = "list" ->
            IF val.v = <<>> THEN <<"[", "]">>
            ELSE <<"[">> \o DumpItems(val.v, 1, level + 1) \o NewLine(level) \o <<"]">>
      [] val.t = "dict" ->
            IF val.v = <<>> THEN <<"{", "}">>
            ELSE <<"{">> \o DumpMembers(val.v, 1, level + 1) \o NewLine(level) \o <<"}">>

DumpItems(items, i, level) ==
    IF i > Len(items) THEN <<>>
    ELSE NewLine(level) \o DumpValue(items[i], level)
         \o (IF i < Len(items) THEN <<",">> ELSE <<>>)
         \o DumpItems(items, i + 1, level)

DumpMembers(members, i, level) ==
    IF i > Len(members) THEN <<>>
    ELSE NewLine(level) \o DumpString(members[i][1]) \o <<":", " ">>
         \o DumpValue(members[i][2], level)
         \o (IF i < Len(members) THEN <<",">> ELSE <<>>)
         \o DumpMembers(members, i + 1, level)

\* The text save_checkpoint writes: json.dump(checkpoint, f, indent=2,
\* ensure_ascii=False).
DumpCheckpoint(list, idx) == DumpValue(CheckpointDict(list, idx), 0)

\* ---- json.load

Failed == [ok |-> FALSE]
Parsed(val, next) == [ok |-> TRUE, val |-> val, next |-> next]

\* The first position at or after p that holds no whitespace.
RECURSIVE SkipWs(_, _)
SkipWs(text, p) ==
    IF p <= Len(text) /\ text[p] \in {" ", "\n"} THEN SkipWs(text, p + 1) ELSE p

\* The str whose text starts after the opening quote, at p; `acc` is what has
\* been read of it.
RECURSIVE ParseChars(_, _, _)
ParseChars(text, p, acc) ==
    IF p > Len(text) THEN Failed
    ELSE IF text[p] = "\"" THEN Parsed(JStr(acc), p + 1)
    ELSE IF text[p] = "\\"
         THEN IF p + 1 > Len(text) THEN Failed
              ELSE IF text[p + 1] \in {"\"", "\\"}
                   THEN ParseChars(text, p + 2, Append(acc, text[p + 1]))
              ELSE IF text[p + 1] = "n" THEN ParseChars(text, p + 2, Append(acc, "\n"))
              ELSE Failed
    ELSE IF text[p] = "\n" THEN Failed
    ELSE ParseChars(text, p + 1, Append(acc, text[p]))

\* The int whose digits start at p; `acc` is the value of those read.
RECURSIVE ParseDigits(_, _, _)
ParseDigits(text, p, acc) ==
    IF p <= Len(text) /\ IsDigit(text[p])
    THEN ParseDigits(text, p + 1,
                     10 * acc + (CHOOSE d \in 0..9 : Digits[d + 1] = text[p]))
    ELSE Parsed(JInt(acc), p)

\* The value whose text starts at or after p.
RECURSIVE ParseValue(_, _), ParseItems(_, _, _), ParseMembers(_, _, _)
ParseValue(text, p0) ==
    LET p == SkipWs(text, p0)
    IN  IF p > Len(text) THEN Failed
        ELSE IF text[p] = "\"" THEN ParseChars(text, p + 1, <<>>)
        ELSE IF IsDigit(text[p]) THEN ParseDigits(text, p, 0)
        ELSE IF text[p] = "["
             THEN LET q == SkipWs(text, p + 1)
                  IN  IF q <= Len(text) /\ text[q] = "]"
                      THEN Parsed(JList(<<>>), q + 1)
                      ELSE ParseItems(text, q, <<>>)
        ELSE IF text[p] = "{"
             THEN LET q == SkipWs(text, p + 1)
                  IN  IF q <= Len(text) /\ text[q] = "}"
                      THEN Parsed(JDict(<<>>), q + 1)
                      ELSE ParseMembers(text, q, <<>>)
        ELSE Failed

\* The rest of a list: an item at p, then "," and more items, or "]".
ParseItems(text, p, acc) ==
    LET item == ParseValue(text, p)
    IN  IF ~item.ok THEN Failed
        ELSE LET q == SkipWs(text, item.next)
                 items == Append(acc, item.val)
             IN  IF q > Len(text) THEN Failed
                 ELSE IF text[q] = "," THEN ParseItems(text, q + 1, items)
                 ELSE IF text[q] = "]" THEN Parsed(JList(items), q + 1)
                 ELSE Failed

\* The rest of a dict: a member at p, then "," and more members, or "}". A
\* key met again replaces the value it had.
ParseMembers(text, p0, acc) ==
    LET p == SkipWs(text, p0)
    IN  IF p > Len(text) \/ text[p] # "\"" THEN Failed
        ELSE LET key == ParseChars(text, p + 1, <<>>)
             IN  IF ~key.ok THEN Failed
                 ELSE LET c == SkipWs(text, key.next)
                      IN  IF c > Len(text) \/ text[c] # ":" THEN Failed
                          ELSE LET member == ParseValue(text, c + 1)
                               IN  IF ~member.ok THEN Failed
                                   ELSE LET q == SkipWs(text, member.next)
                                            had == {i \in 1..Len(acc) : acc[i][1] = key.val.v}
                                            members ==
                                                IF had = {}
                                                THEN Append(acc, <<key.val.v, member.val>>)
                                                ELSE [i \in 1..Len(acc) |->
                                                         IF i \in had
                                                         THEN <<key.val.v, member.val>>
                                                         ELSE acc[i]]
                                        IN  IF q > Len(text) THEN Failed
                                            ELSE IF text[q] = ","
                                                 THEN ParseMembers(text, q + 1, members)
                                            ELSE IF text[q] = "}"
                                                 THEN Parsed(JDict(members), q + 1)
                                            ELSE Failed

\* json.load(f): the value of the whole text, nothing but whitespace after it.
JsonLoad(text) ==
    LET r == ParseValue(text, 1)
    IN  IF r.ok /\ SkipWs(text, r.next) > Len(text) THEN r ELSE Failed

\* d[key] of a dict; only asked of a dict that has the key.
HasKey(d, key) == \E i \in 1..Len(d.v) : d.v[i][1] = key
Get(d, key) == d.v[CHOOSE i \in 1..Len(d.v) : d.v[i][1] = key][2]

\* The file: absent, or its text.
NoText == [exists |-> FALSE]
Text(t) == [exists |-> TRUE, text |-> t]

\* load_checkpoint(checkpoint_file): the dict, or None without a file or
\* when json.load raises.
None == [none |-> TRUE]
LoadCheckpoint(f) ==
    IF f.exists
    THEN LET r == JsonLoad(f.text)
         IN  IF r.ok /\ r.val.t = "dict" /\ HasKey(r.val, Key_index)
             THEN [none |-> FALSE, dict |-> r.val]
             ELSE None
    ELSE None

\* The strings of the records saved: quotes, backslashes, brackets, a line
\* break, the text of a member, the empty string.
Quoted == <<"a", "\"", "b">>
Backslashed == <<"c", "\\">>
EscapedQuote == <<"\\", "\"">>
Bracketed == <<"{", "x", "}", ",", " ", "[", "y", "]">>
TwoLines == <<"u", "p", "\n", "d", "o", "w", "n">>
KeyLike == <<"\"", "i", "n", "d", "e", "x", "\"", ":", " ", "7">>
Empty == <<>>

CkptPool ==
    { Business(AcmeCafe, MainSt1, PhoneParens, SiteAcme, EmailsAB),
      Business(Quoted, Backslashed, NA, NA, NA),
      Business(EscapedQuote, Bracketed, PhoneDashes, KeyLike, EmailA),
      Business(TwoLines, Empty, NA, SiteA, NA),
      Business(Backslashed, Backslashed, Empty, Quoted, NA) }

\* The index values saved.
CkptIndexes == {0, 7, 10, 123}

CkptInit ==
    /\ ckpt \in {[pc |-> "start", businesses |-> l, index |-> n, file |-> NoText,
                  loaded |-> None] : l \in ListsUpTo(CkptPool, MaxSaved), n \in CkptIndexes}
    /\ pc = "off"
    /\ feed = [total |-> 0, bad |-> 0]
    /\ businesses = <<>>
    /\ start_index = 0
    /\ index = 0
    /\ elapsed = 0
    /\ file = NoFile
    /\ run = NewRun
    /\ scroll = Idle
    /\ dedupe = Idle
    /\ RestIdle

\* save_checkpoint(checkpoint_file, businesses, index): the file is opened
\* for writing (truncated) and the dict dumped.
CkptSave ==
    /\ ckpt.pc = "start"
    /\ ckpt' = [ckpt EXCEPT !.pc = "saved",
                            !.file = Text(DumpCheckpoint(ckpt.businesses, ckpt.index))]
    /\ UNCHANGED <<mainVars, scroll, dedupe, restVars>>

\* load_checkpoint(checkpoint_file), of the file just written or of none.
CkptLoad ==
    /\ ckpt.pc \in {"start", "saved"}
    /\ ckpt' = [ckpt EXCEPT !.pc = IF ckpt.file.exists THEN "loaded" ELSE "missing",
                            !.loaded = LoadCheckpoint(ckpt.file)]
    /\ UNCHANGED <<mainVars, scroll, dedupe, restVars>>

CkptNext ==
    \/ CkptSave
    \/ CkptLoad

SpecCkpt == CkptInit /\ [][CkptNext]_vars

\* The business a dict of the loaded list stands for: the dict must hold the
\* five keys and nothing else, each with a str.
IsBusinessDict(d) ==
    /\ d.t = "dict"
    /\ {d.v[i][1] : i \in 1..Len(d.v)} = {Key_name, Key_address, Key_phone, Key_website, Key_emails}
    /\ Len(d.v) = 5
    /\ \A i \in 1..Len(d.v) : d.v[i][2].t = "str"

AsBusiness(d) ==
    Business(Get(d, Key_name).v, Get(d, Key_address).v, Get(d, Key_phone).v,
             Get(d, Key_website).v, Get(d, Key_emails).v)

\* C6: what load_checkpoint reads from the file save_checkpoint wrote is a
\* dict whose "businesses" are the records saved, in their order, and whose
\* "index" is the index saved.
C6_CheckpointRoundTrip ==
    ckpt.pc = "loaded" =>
        /\ ~ckpt.loaded.none
        /\ HasKey(ckpt.loaded.dict, Key_businesses)
        /\ LET list == Get(ckpt.loaded.dict, Key_businesses)
               idx == Get(ckpt.loaded.dict, Key_index)
           IN  /\ list.t = "list"
               /\ Len(list.v) = Len(ckpt.businesses)
               /\ \A i \in 1..Len(list.v) :
                      /\ IsBusinessDict(list.v[i])
                      /\ AsBusiness(list.v[i]) = ckpt.businesses[i]
               /\ idx.t = "int"
               /\ idx.v = ckpt.index

\* C6's case: two records with quotes, backslashes and a line break in their
\* fields and an index of several digits, saved and loaded.
C6_Witness ==
    /\ ckpt.pc = "loaded"
    /\ ~ckpt.loaded.none
    /\ ckpt.index = 123
    /\ Len(ckpt.businesses) = 2
    /\ ckpt.businesses[1].name = EscapedQuote
    /\ ckpt.businesses[2].name = TwoLines
    /\ Len(Get(ckpt.loaded.dict, Key_businesses).v) = 2

-----------------------------------------------------------------------------
(* should_skip_email_extraction *)

\* SKIP_EMAIL_DOMAINS
SKIP_EMAIL_DOMAINS ==
    { <<"f", "a", "c", "e", "b", "o", "o", "k", ".", "c", "o", "m">>,
      <<"i", "n", "s", "t", "a", "g", "r", "a", "m", ".", "c", "o", "m">>,
      <<"t", "w", "i", "t", "t", "e", "r", ".", "c", "o", "m">>,
      <<"y", "o", "u", "t", "u", "b", "e", ".", "c", "o", "m">>,
      <<"t", "i", "k", "t", "o", "k", ".", "c", "o", "m">>,
      <<"l", "i", "n", "k", "e", "d", "i", "n", ".", "c", "o", "m">>,
      <<"p", "i", "n", "t", "e", "r", "e", "s", "t", ".", "c", "o", "m">>,
      <<"g", "o", "o", "g", "l", "e", ".", "c", "o", "m">>,
      <<"m", "a", "p", "s", ".", "g", "o", "o", "g", "l", "e", ".", "c", "o", "m">>,
      <<"y", "e", "l", "p", ".", "c", "o", "m">>,
      <<"t", "r", "i", "p", "a", "d", "v", "i", "s", "o", "r", ".", "c", "o", "m">> }

\* The prefix 'www.' that should_skip_email_extraction removes.
Www == <<"w", "w", "w", ".">>

IsAlpha(c) == \E i \in 1..Len(Uppers) : Uppers[i] = c \/ Lowers[i] = c

\* urllib.parse.scheme_chars: letters, digits, "+", "-" and ".".
IsSchemeChar(c) == IsAlpha(c) \/ IsDigit(c) \/ c \in {"+", "-", "."}

\* `pat in s`
Contains(s, pat) ==
    \E i \in 1..(Len(s) - Len(pat) + 1) : SubSeq(s, i, i + Len(pat) - 1) = pat

\* s.startswith(pat)
StartsWith(s, pat) == Len(s) >= Len(pat) /\ SubSeq(s, 1, Len(pat)) = pat

\* s.endswith(pat)
EndsWith(s, pat) ==
    Len(s) >= Len(pat) /\ SubSeq(s, Len(s) - Len(pat) + 1, Len(s)) = pat

\* s.replace(pat, ''): every occurrence of pat removed, left to right.
RECURSIVE RemoveAll(_, _)
RemoveAll(s, pat) ==
    IF s = <<>> THEN <<>>
    ELSE IF StartsWith(s, pat) THEN RemoveAll(SubSeq(s, Len(pat) + 1, Len(s)), pat)
    ELSE <<s[1]>> \o RemoveAll(Tail(s), pat)

\* s.lstrip()
LStrip(s) ==
    LET keep == {i \in 1..Len(s) : ~IsSpace(s[i])}
    IN  IF keep = {} THEN <<>>
        ELSE SubSeq(s, CHOOSE i \in keep : \A j \in keep : i <= j, Len(s))

NotNewline(c) == c # "\n"

\* urlsplit: the url once its scheme is split off. A scheme is what precedes
\* the first ":" when that starts with a letter and holds scheme characters
\* only; leading blanks and line breaks are removed first.
AfterScheme(website) ==
    LET url == SelectSeq(LStrip(website), NotNewline)
        colons == {i \in 1..Len(url) : url[i] = ":"}
    IN  IF colons = {} THEN url
        ELSE LET i == CHOOSE i \in colons : \A j \in colons : i <= j
             IN  IF i > 1 /\ IsAlpha(url[1]) /\ \A j \in 1..(i - 1) : IsSchemeChar(url[j])
                 THEN SubSeq(url, i + 1, Len(url))
                 ELSE url

\* urlparse(website).netloc: what follows "//" up to the first "/", "?" or
\* "#", and the empty string when the url, its scheme split off, does not
\* start with "//".
Netloc(website) ==
    LET url == AfterScheme(website)
    IN  IF StartsWith(url, <<"/", "/">>)
        THEN LET delims == {i \in 3..Len(url) : url[i] \in {"/", "?", "#"}}
                 end == IF delims = {} THEN Len(url)
                        ELSE (CHOOSE i \in delims : \A j \in delims : i <= j) - 1
             IN  SubSeq(url, 3, end)
        ELSE <<>>

\* urlparse raises ValueError("Invalid IPv6 URL") on a netloc with one
\* bracket only.
UrlparseRaises(website) ==
    LET netloc == Netloc(website)
    IN  Contains(netloc, <<"[">>) # Contains(netloc, <<"]">>)

\* `domain` of should_skip_email_extraction, after both of its assignments.
SkipDomainOf(website) == RemoveAll(Lower(Netloc(website)), Www)

\* should_skip_email_extraction(website)
should_skip_email_extraction(website) ==
    IF UrlparseRaises(website) THEN TRUE
    ELSE \E skip \in SKIP_EMAIL_DOMAINS : Contains(SkipDomainOf(website), skip)

-----------------------------------------------------------------------------
(* extract_business_data *)

\* What a query yields: no element, a call that raises, or a text.
NoElement == [kind |-> "none"]
Raising == [kind |-> "raises"]
TextOf(t) == [kind |-> "text", text |-> t]

\* The names line 298 takes for no business, besides the empty one.
PseudoLabels ==
    { <<"r", "e", "s", "u", "l", "t", "s">>,
      <<"o", "v", "e", "r", "v", "i", "e", "w">>,
      <<"a", "b", "o", "u", "t">>,
      <<"r", "e", "v", "i", "e", "w", "s">>,
      <<"n", "/", "a">> }

\* business["name"] after the name is extracted: the trimmed inner text of
\* the name element, or "N/A" when no selector finds a visible element or
\* inner_text() raises.
ResolvedName(name_el) ==
    IF name_el.kind = "text" THEN Strip(name_el.text) ELSE NA

\* A validation that compares the name as it is written.
NameRejected_CaseSensitive(name) == name = <<>> \/ name \in PseudoLabels

\* `not business["name"] or business["name"].lower() in {...}`
NameRejected(name) == name = <<>> \/ Lower(name) \in PseudoLabels

\* aria.split(":", 1)[-1]: what follows the first ":", or all of it.
AfterFirstColon(aria) ==
    LET colons == {i \in 1..Len(aria) : aria[i] = ":"}
    IN  IF colons = {} THEN aria
        ELSE SubSeq(aria, (CHOOSE i \in colons : \A j \in colons : i <= j) + 1, Len(aria))

\* The class [\d\s\-\(\)\+] of the phone pattern.
IsPhoneLabelChar(c) == IsDigit(c) \/ IsSpace(c) \/ c \in {"-", "(", ")", "+"}

\* re.search(r'[\d\s\-\(\)\+]+', s): the leftmost longest run of characters
\* of the class; <<>> stands for no match.
PhoneRun(s) ==
    LET starts == {i \in 1..Len(s) : IsPhoneLabelChar(s[i])}
    IN  IF starts = {} THEN <<>>
        ELSE LET i == CHOOSE i \in starts : \A j \in starts : i <= j
                 ends == {k \in i..Len(s) : \A j \in i..k : IsPhoneLabelChar(s[j])}
             IN  SubSeq(s, i, CHOOSE k \in ends : \A j \in ends : k >= j)

Http == <<"h", "t", "t", "p">>
HttpSlashes == <<"h", "t", "t", "p", ":", "/", "/">>
HttpsSlashes == <<"h", "t", "t", "p", "s", ":", "/", "/">>

\* re.search(r'https?://[^\s]+', s): the leftmost "http://" or "https://"
\* that a non-blank follows, up to the next blank; <<>> stands for no match.
UrlMatch(s) ==
    LET starts == {i \in 1..Len(s) :
                      \E p \in {HttpSlashes, HttpsSlashes} :
                          /\ StartsWith(SubSeq(s, i, Len(s)), p)
                          /\ i + Len(p) <= Len(s)
                          /\ ~IsSpace(s[i + Len(p)])}
    IN  IF starts = {} THEN <<>>
        ELSE LET i == CHOOSE i \in starts : \A j \in starts : i <= j
                 ends == {k \in i..Len(s) : \A j \in i..k : ~IsSpace(s[j])}
             IN  SubSeq(s, i, CHOOSE k \in ends : \A j \in ends : k >= j)

LabelAddress == <<"a", "d", "d", "r", "e", "s", "s", ":">>
LabelLocatedAt == <<"l", "o", "c", "a", "t", "e", "d", " ", "a", "t">>
LabelPhone == <<"p", "h", "o", "n", "e", ":">>
LabelCall == <<"c", "a", "l", "l">>
LabelWebsite == <<"w", "e", "b", "s", "i", "t", "e", ":">>

\* The record after one button of `button[data-item-id]` with the aria-label
\* `aria` has been looked at (the body of `for btn in buttons`).
ContactFromAria(business, aria) ==
    LET aria_lower == Lower(aria)
    IN  IF Contains(aria_lower, LabelAddress) \/ Contains(aria_lower, LabelLocatedAt)
        THEN [business EXCEPT !.address = Strip(AfterFirstColon(aria))]
        ELSE IF Contains(aria_lower, LabelPhone) \/ Contains(aria_lower, LabelCall)
        THEN LET phone_match == PhoneRun(aria)
             IN  IF phone_match # <<>>
                 THEN [business EXCEPT !.phone = Strip(phone_match)]
                 ELSE business
        ELSE IF Contains(aria_lower, LabelWebsite) \/ StartsWith(aria, Http)
        THEN LET website_match == UrlMatch(aria)
             IN  IF website_match # <<>>
                 THEN [business EXCEPT !.website = Strip(website_match)]
                 ELSE IF Contains(aria, <<":">>)
                      THEN [business EXCEPT !.website = Strip(AfterFirstColon(aria))]
                      ELSE business
        ELSE business

RECURSIVE ContactFromButtons(_, _)
ContactFromButtons(business, buttons) ==
    IF buttons = <<>> THEN business
    ELSE ContactFromButtons(
             IF buttons[1].kind = "text" THEN ContactFromAria(business, buttons[1].text)
             ELSE business,
             Tail(buttons))

\* The record after the alternative lookup of the website: the href of the
\* authority link when the buttons gave no website and the href starts with
\* "http". (The detail pages of the model have no element for the
\* alternative lookups of the phone and of the address, and their authority
\* link has no aria-label.)
WebsiteFromLink(business, href) ==
    IF business.website = NA /\ href.kind = "text" /\ StartsWith(href.text, Http)
    THEN [business EXCEPT !.website = href.text]
    ELSE business

\* The dict extract_business_data starts from.
BlankBusiness == [name |-> NA, address |-> NA, phone |-> NA, website |-> NA, emails |-> NA]

\* What extract_business_data returns.
Rejected == [ok |-> FALSE]
Extracted(business) == [ok |-> TRUE, business |-> business]

\* extract_business_data(page), on a detail page with the name element
\* `name_el`, the buttons `buttons` and the authority link `href`.
extract_business_data(page) ==
    LET named == [BlankBusiness EXCEPT !.name = ResolvedName(page.name_el)]
    IN  IF NameRejected(named.name) THEN Rejected
        ELSE Extracted(WebsiteFromLink(ContactFromButtons(named, page.buttons), page.href))

-----------------------------------------------------------------------------
(* The business loop of main() with extract_emails_from_website, one step  *)
(* of the loop body at a time                                              *)

\* The longest detail-link list of this loop.
MaxLinks == 2

\* `for link in contact_links[:2]`
ContactLinksChecked == 2

\* The strings of the detail pages.
NameReviews == <<" ", "R", "e", "v", "i", "e", "w", "s", " ">>
LabelSiteAcme == <<"W", "e", "b", "s", "i", "t", "e", ":", " ", "h", "t", "t", "p", "s", ":", "/", "/", "a", "c", "m", "e", ".", "c", "o", "m">>
LabelSiteSchemeless == <<"W", "e", "b", "s", "i", "t", "e", ":", " ", "w", "w", "w", ".", "f", "a", "c", "e", "b", "o", "o", "k", ".", "c", "o", "m", "/", "s", "o", "m", "e", "b", "u", "s", "i", "n", "e", "s", "s">>
LabelSiteBlocked == <<"W", "e", "b", "s", "i", "t", "e", ":", " ", "h", "t", "t", "p", ":", "/", "/", "W", "W", "W", ".", "F", "a", "c", "e", "b", "o", "o", "k", ".", "c", "o", "m", "/", "b", "a", "r">>
LabelPhoneParens == <<"P", "h", "o", "n", "e", ":", " ", "(", "5", "5", "5", ")", " ", "1", "2", "3", "-", "4", "5", "6", "7">>
LabelAddressMainSt == <<"A", "d", "d", "r", "e", "s", "s", ":", " ", "1", " ", "M", "a", "i", "n", " ", "S", "t">>
HrefAcme == <<"h", "t", "t", "p", "s", ":", "/", "/", "a", "c", "m", "e", ".", "c", "o", "m", "/">>
WebsiteAcme == <<"h", "t", "t", "p", "s", ":", "/", "/", "a", "c", "m", "e", ".", "c", "o", "m">>
WebsiteSchemeless == <<"w", "w", "w", ".", "f", "a", "c", "e", "b", "o", "o", "k", ".", "c", "o", "m", "/", "s", "o", "m", "e", "b", "u", "s", "i", "n", "e", "s", "s">>
WebsiteBlocked == <<"h", "t", "t", "p", ":", "/", "/", "W", "W", "W", ".", "F", "a", "c", "e", "b", "o", "o", "k", ".", "c", "o", "m", "/", "b", "a", "r">>

\* A detail page and the website behind it: the name element, the contact
\* buttons, the authority link, the emails in the website's content, the
\* number of its contact links and the emails in each contact page.
DetailPage(name_el, buttons, href, site, links, contact) ==
    [name_el |-> name_el, buttons |-> buttons, href |-> href,
     site_emails |-> site, contact_links |-> links, contact_emails |-> contact]

\* The detail pages the link lists are drawn from.
PagePool ==
    { DetailPage(TextOf(AcmeCafe), <<TextOf(LabelAddressMainSt), TextOf(LabelSiteAcme)>>,
                 NoElement, {EmailB}, 2, {EmailA}),
      DetailPage(TextOf(NameReviews), <<TextOf(LabelSiteAcme)>>, NoElement, {EmailA}, 0, {}),
      DetailPage(TextOf(Bar), <<TextOf(LabelSiteSchemeless)>>, NoElement, {}, 0, {}),
      DetailPage(TextOf(Bar), <<TextOf(LabelPhoneParens), TextOf(LabelSiteBlocked)>>,
                 NoElement, {EmailC}, 1, {}),
      DetailPage(NoElement, <<>>, TextOf(HrefAcme), {EmailA}, 0, {}),
      DetailPage(Raising, <<NoElement>>, NoElement, {}, 0, {}),
      DetailPage(TextOf(AcmeCafeUpper), <<>>, TextOf(HrefAcme), {}, 1, {EmailC}) }

\* The loop's locals before its first pass, e ticks after the run's start;
\* `accepted` are the positions whose
\* record was appended, `harvested` the websites an auxiliary page was opened
\* for, `open` the auxiliary pages open, `navigated` the navigations made in
\* auxiliary pages.
VisitEntry(links, skip_emails, e) ==
    [pc |-> "head", links |-> links, SKIP_EMAILS |-> skip_emails, index |-> 0,
     elapsed |-> e, businesses |-> <<>>, file |-> NoFile, business |-> Rejected,
     found_emails |-> {}, linksLeft |-> 0, failed |-> FALSE, stop |-> "none",
     open |-> 0, navigated |-> 0, harvested |-> {}, accepted |-> <<>>]

VisitInit ==
    /\ visit \in {VisitEntry(l, s, e) : l \in ListsUpTo(PagePool, MaxLinks), s \in BOOLEAN,
                                        e \in 0..(Timeout + 1)}
    /\ MainOff
    /\ scroll = Idle
    /\ dedupe = Idle
    /\ ckpt = Idle
    /\ retry = Idle
    /\ normalize = Idle
    /\ validate = Idle
    /\ resolve = Idle

visitOthers == <<mainVars, scroll, dedupe, ckpt, retry, normalize, validate, resolve>>

\* A loop that a failed business ends.
SkipBusiness_Abort(v) == [v EXCEPT !.pc = "done", !.stop = "error", !.business = Rejected]

\* `continue`: the loop goes on to the next link.
SkipBusiness(v) == [v EXCEPT !.pc = "head", !.index = @ + 1, !.business = Rejected]

\* `if not SKIP_EMAILS and business["website"] != "N/A": if not
\* should_skip_email_extraction(business["website"])`
HarvestWanted(skip_emails, website) ==
    /\ ~skip_emails
    /\ website # NA
    /\ ~should_skip_email_extraction(website)

\* `", ".join(sorted(emails)) if emails else "N/A"`
EmailsField(emails) == IF emails # {} THEN Join(Sorted(emails)) ELSE NA

\* The rest of the loop body once the harvest returned `emails`: the emails
\* field is set, the record appended, the periodic checkpoint written when
\* due.
AppendBusiness(v, emails) ==
    LET business == [v.business.business EXCEPT !.emails = EmailsField(emails)]
        appended == Append(v.businesses, business)
    IN  [v EXCEPT !.pc = "head",
                  !.businesses = appended,
                  !.accepted = Append(@, v.index),
                  !.file = IF PeriodicDue(v.index) THEN save_checkpoint(appended, v.index + 1)
                           ELSE @,
                  !.index = @ + 1,
                  !.business = Rejected,
                  !.found_emails = {},
                  !.failed = FALSE,
                  !.linksLeft = 0]

\* A harvester that closes its page only when no step failed.
Released_OnSuccess(failed) == ~failed

\* `finally: new_page.close()`: whether the page is closed.
Released(failed) == TRUE

\* The for loop finds no further link.
LinksExhausted ==
    /\ visit.pc = "head"
    /\ visit.index >= Len(visit.links)
    /\ visit' = [visit EXCEPT !.pc = "done", !.stop = "exhausted"]
    /\ UNCHANGED visitOthers

\* `if time.time() - start_time > TIMEOUT: ... break`
LinkDeadline ==
    /\ visit.pc = "head"
    /\ visit.index < Len(visit.links)
    /\ DeadlineReached(visit.elapsed)
    /\ visit' = [visit EXCEPT !.pc = "done", !.stop = "deadline"]
    /\ UNCHANGED visitOthers

\* The loop body up to the harvest, d ticks long: page.goto(href) (which may
\* raise: `fault` = "goto"), wait_for_selector (which may find no name:
\* "noload"), extract_business_data.
OpenDetail(d, fault) ==
    /\ visit.pc = "head"
    /\ visit.index < Len(visit.links)
    /\ ~DeadlineReached(visit.elapsed)
    /\ LET begun == [visit EXCEPT !.elapsed = Later(@, d)]
           business == extract_business_data(visit.links[visit.index + 1])
       IN  visit' =
               IF fault \in {"goto", "noload"} THEN SkipBusiness(begun)
               ELSE IF ~business.ok THEN SkipBusiness(begun)
               ELSE [begun EXCEPT !.pc = "decide", !.business = business]
    /\ UNCHANGED visitOthers

\* No harvest: the record is appended without emails.
NoHarvest ==
    /\ visit.pc = "decide"
    /\ ~HarvestWanted(visit.SKIP_EMAILS, visit.business.business.website)
    /\ visit' = AppendBusiness(visit, {})
    /\ UNCHANGED visitOthers

\* extract_emails_from_website up to `new_page = page.context.new_page()`;
\* when that raises the harvester returns no email.
OpenAuxPage(fault) ==
    /\ visit.pc = "decide"
    /\ HarvestWanted(visit.SKIP_EMAILS, visit.business.business.website)
    /\ visit' =
           IF fault = "new_page" THEN AppendBusiness(visit, {})
           ELSE [visit EXCEPT !.pc = "aux_goto",
                              !.open = @ + 1,
                              !.harvested = @ \cup {visit.business.business.website}]
    /\ UNCHANGED visitOthers

\* new_page.goto(website), the content read and searched, the contact links
\* queried. A goto, content() or query that raises leaves the inner try.
AuxGoto(fault) ==
    /\ visit.pc = "aux_goto"
    /\ LET page == visit.links[visit.index + 1]
       IN  visit' =
               IF fault \in {"goto", "query"}
               THEN [visit EXCEPT !.pc = "aux_close", !.failed = TRUE,
                                  !.navigated = @ + 1]
               ELSE [visit EXCEPT !.pc = "aux_links",
                                  !.navigated = @ + 1,
                                  !.found_emails = page.site_emails,
                                  !.linksLeft =
                                      IF page.contact_links > ContactLinksChecked
                                      THEN ContactLinksChecked ELSE page.contact_links]
    /\ UNCHANGED visitOthers

LinkFailed_Aborts(v) == [v EXCEPT !.pc = "aux_close", !.failed = TRUE]

\* `except Exception: continue` inside the loop over the contact links: the
\* pass is over, the loop is not.
LinkFailed(v) == [v EXCEPT !.pc = "aux_links"]

\* One pass of `for link in contact_links[:2]`: the link is left out (no
\* href, javascript:, mailto:), or its page is loaded and searched, or the
\* goto or the content read raises, or go_back raises once the page's emails
\* are in found_emails; after a raise the loop goes on to the next link.
AuxContactLink(how) ==
    /\ visit.pc = "aux_links"
    /\ visit.linksLeft > 0
    /\ LET page == visit.links[visit.index + 1]
           next == [visit EXCEPT !.linksLeft = @ - 1]
           gone == [next EXCEPT !.navigated = @ + 1]
           read == [gone EXCEPT !.found_emails = @ \cup page.contact_emails]
       IN  visit' =
               CASE how = "leftout" -> next
                 [] how = "raises" -> LinkFailed(gone)
                 [] how = "back_raises" -> LinkFailed(read)
                 [] OTHER -> read
    /\ UNCHANGED visitOthers

\* `emails = found_emails` when no step failed, `finally: new_page.close()`,
\* the harvester returns and the record is appended.
AuxClose ==
    /\ \/ visit.pc = "aux_close"
       \/ visit.pc = "aux_links" /\ visit.linksLeft = 0
    /\ LET closed == [visit EXCEPT !.open = IF Released(visit.failed) THEN @ - 1 ELSE @]
       IN  visit' = AppendBusiness(closed, IF visit.failed THEN {} ELSE visit.found_emails)
    /\ UNCHANGED visitOthers

VisitNext ==
    \/ LinksExhausted
    \/ LinkDeadline
    \/ \E d \in 0..1, fault \in {"none", "goto", "noload"} : OpenDetail(d, fault)
    \/ NoHarvest
    \/ \E fault \in {"none", "new_page"} : OpenAuxPage(fault)
    \/ \E fault \in {"none", "goto", "query"} : AuxGoto(fault)
    \/ \E how \in {"loaded", "leftout", "raises", "back_raises"} : AuxContactLink(how)
    \/ AuxClose

SpecVisit == VisitInit /\ [][VisitNext]_vars

-----------------------------------------------------------------------------
(* Properties of the business loop *)

SchemeSep == <<":", "/", "/">>

\* The host of a website value as the claims read it: what follows the
\* scheme and "://", if any, up to the first "/", "?" or "#", in lower case,
\* a leading "www." removed.
HostOf(website) ==
    LET seps == {i \in 1..Len(website) : StartsWith(SubSeq(website, i, Len(website)), SchemeSep)}
        rest == IF seps = {} THEN website
                ELSE SubSeq(website, (CHOOSE i \in seps : \A j \in seps : i <= j) + 3,
                            Len(website))
        delims == {i \in 1..Len(rest) : rest[i] \in {"/", "?", "#"}}
        host == Lower(IF delims = {} THEN rest
                      ELSE SubSeq(rest, 1, (CHOOSE i \in delims : \A j \in delims : i <= j) - 1))
    IN  IF StartsWith(host, Www) THEN SubSeq(host, Len(Www) + 1, Len(host)) ELSE host

HostedAtBlocked(website) ==
    \E skip \in SKIP_EMAIL_DOMAINS : Contains(HostOf(website), skip)

\* C12: no auxiliary page is opened for a website whose host, a leading
\* "www." removed, contains a blocked domain.
C12_BlockedSiteNeverLoads ==
    \A website \in visit.harvested : ~HostedAtBlocked(website)

\* The four pseudo-labels of the claim.
ClaimedLabels == PseudoLabels \ {Lower(NA)}

\* Whether a detail page's name is no business name: no name resolves, or
\* the name, trimmed and in lower case, is a pseudo-label.
IsPseudoName(name_el) ==
    \/ name_el.kind # "text"
    \/ Lower(Strip(name_el.text)) \in ClaimedLabels

\* C13: every record appended comes from a detail page whose name resolved
\* and is no pseudo-label, no page of another kind gets past the extraction,
\* and no record of the list has a pseudo-label or the absent sentinel for
\* its name.
C13_NoPseudoLabelRecord ==
    visit.pc # "off" =>
        /\ Len(visit.accepted) = Len(visit.businesses)
        /\ \A k \in 1..Len(visit.accepted) :
               ~IsPseudoName(visit.links[visit.accepted[k] + 1].name_el)
        /\ \A k \in 1..Len(visit.businesses) :
               /\ Lower(Strip(visit.businesses[k].name)) \notin ClaimedLabels
               /\ visit.businesses[k].name # NA
        /\ visit.pc \in {"decide", "aux_goto", "aux_links", "aux_close"}
               => ~IsPseudoName(visit.links[visit.index + 1].name_el)

\* C13's case: the page named " Reviews ", whose website button is there,
\* was visited and gave no record; the page after it gave one.
C13_Witness ==
    /\ visit.pc = "done"
    /\ Len(visit.links) = 2
    /\ visit.links[1].name_el = TextOf(NameReviews)
    /\ visit.links[1].buttons = <<TextOf(LabelSiteAcme)>>
    /\ visit.accepted = <<1>>
    /\ Len(visit.businesses) = 1

\* C14: at most one auxiliary page is open, it is open only while the
\* harvester runs, and none is open when the loop is between two businesses
\* or has ended.
C14_AuxPageReleased ==
    visit.pc # "off" =>
        /\ visit.open <= 1
        /\ visit.pc \in {"head", "decide", "done"} => visit.open = 0
        /\ visit.pc \in {"aux_goto", "aux_links", "aux_close"} => visit.open = 1

\* C14's case: the harvest of the first business failed (its website has an
\* email, its record has none) and the second business's harvest holds the
\* one auxiliary page open.
C14_Witness ==
    /\ visit.pc = "aux_goto"
    /\ visit.index = 1
    /\ visit.open = 1
    /\ visit.navigated >= 1
    /\ Len(visit.businesses) = 1
    /\ visit.businesses[1].website = WebsiteAcme
    /\ visit.businesses[1].emails = NA

\* C20: the loop ends before the last link only when the deadline is
\* exceeded; every step leaves the records accumulated as they are, adds one
\* at most and, when it ends a business, goes on to the next link; every
\* record is the one extracted from its page but for its emails.
C20_FailureSkipsOneBusiness ==
    /\ [](visit.pc = "done" =>
              \/ visit.stop = "deadline"
              \/ visit.stop = "exhausted" /\ visit.index = Len(visit.links))
    /\ [](visit.pc # "off" =>
              \A k \in 1..Len(visit.accepted) :
                  LET page == extract_business_data(visit.links[visit.accepted[k] + 1])
                  IN  /\ page.ok
                      /\ [visit.businesses[k] EXCEPT !.emails = NA] = page.business)
    /\ [][visit.pc \notin {"off", "done"} =>
              /\ IsPrefix(visit.businesses, visit'.businesses)
              /\ Len(visit'.businesses) <= Len(visit.businesses) + 1
              /\ \/ visit'.index = visit.index
                 \/ visit'.index = visit.index + 1 /\ visit'.pc = "head"]_vars

\* C20's case: of two links to the same page, the first failed to load and
\* gave no record, the second was visited, its harvest failed (the website
\* has an email, the record has none) and its record was appended.
C20_Witness ==
    /\ visit.pc = "done"
    /\ visit.stop = "exhausted"
    /\ ~visit.SKIP_EMAILS
    /\ Len(visit.links) = 2
    /\ visit.links[1] = visit.links[2]
    /\ visit.links[1].name_el = TextOf(AcmeCafe)
    /\ visit.accepted = <<1>>
    /\ visit.businesses[1].emails = NA
    /\ visit.businesses[1].address = MainSt1
    /\ visit.navigated >= 1

\* C22: a pass over a contact link, whatever happens in it, leaves the loop
\* over the links running with one link fewer to go, the auxiliary page open
\* and every email found so far in found_emails; the main page's emails are
\* there from the start; and the record appended when the links are
\* exhausted carries all of found_emails.
C22_LinkFailureKeepsEmails ==
    /\ [][(visit.pc = "aux_links" /\ visit.linksLeft > 0)
             => /\ visit'.pc = "aux_links"
                /\ visit'.linksLeft = visit.linksLeft - 1
                /\ visit.found_emails \subseteq visit'.found_emails
                /\ visit'.open = 1
                /\ ~visit'.failed
                /\ visit'.businesses = visit.businesses]_vars
    /\ [](visit.pc = "aux_links" =>
              /\ visit.links[visit.index + 1].site_emails \subseteq visit.found_emails
              /\ ~visit.failed)
    /\ [][(visit.pc = "aux_links" /\ visit.linksLeft = 0)
             => /\ Len(visit'.businesses) = Len(visit.businesses) + 1
                /\ visit'.businesses[Len(visit'.businesses)].emails
                       = EmailsField(visit.found_emails)]_vars

\* C22's case: the first website has an email in its main page and two
\* contact links whose pages have another; three navigations were made, so
\* both links were gone to, and the record has the main page's email alone,
\* so both passes raised.
C22_Witness ==
    /\ visit.pc = "head"
    /\ visit.index = 1
    /\ visit.navigated = 3
    /\ Len(visit.businesses) = 1
    /\ visit.businesses[1].emails = EmailB

-----------------------------------------------------------------------------
(* retry_action *)

\* The largest max_retries the function is called with.
MaxAttempts == 3

\* What a call of the action does: it returns a value or raises an Exception.
Outcomes ==
    {[ok |-> TRUE, value |-> v] : v \in {"r1", "r2"}}
        \cup {[ok |-> FALSE, error |-> e] : e \in {"e1", "e2"}}

\* A delay is a fraction <<numerator, denominator>> of a second.
\* `delay *= 1.5`
Backoff(delay) == <<3 * delay[1], 2 * delay[2]>>

\* A test that takes the attempt after the last one for the last.
IsLastAttempt_OneLate(attempt, max_retries) == attempt = max_retries

\* `if attempt == max_retries - 1`
IsLastAttempt(attempt, max_retries) == attempt = max_retries - 1

\* retry_action(action, max_retries, delay) before the loop. `outcomes` are
\* the outcomes of the calls of the action made so far, `sleeps` the delays
\* slept.
RetryEntry(max_retries, delay) ==
    [pc |-> "loop", max_retries |-> max_retries, delay |-> <<delay, 1>>, attempt |-> 0,
     outcomes |-> <<>>, sleeps |-> <<>>, result |-> "none", raised |-> "none"]

RetryInit ==
    /\ retry \in {RetryEntry(m, d) : m \in 0..MaxAttempts, d \in 1..3}
    /\ MainOff
    /\ scroll = Idle
    /\ dedupe = Idle
    /\ ckpt = Idle
    /\ visit = Idle
    /\ normalize = Idle
    /\ validate = Idle
    /\ resolve = Idle

retryOthers == <<mainVars, scroll, dedupe, ckpt, visit, normalize, validate, resolve>>

\* One pass of `for attempt in range(max_retries)`: the action is called;
\* its value is returned, or its exception is raised again on the last
\* attempt, or the delay is slept and made longer.
RetryAttempt(outcome) ==
    /\ retry.pc = "loop"
    /\ retry.attempt < retry.max_retries
    /\ LET called == [retry EXCEPT !.outcomes = Append(@, outcome)]
       IN  retry' =
               IF outcome.ok
               THEN [called EXCEPT !.pc = "returned", !.result = outcome.value]
               ELSE IF IsLastAttempt(retry.attempt, retry.max_retries)
               THEN [called EXCEPT !.pc = "raised", !.raised = outcome.error]
               ELSE [called EXCEPT !.sleeps = Append(@, retry.delay),
                                   !.delay = Backoff(@),
                                   !.attempt = @ + 1]
    /\ UNCHANGED retryOthers

\* The range is exhausted: `return None`.
RetryExhausted ==
    /\ retry.pc = "loop"
    /\ retry.attempt >= retry.max_retries
    /\ retry' = [retry EXCEPT !.pc = "returned", !.result = "None"]
    /\ UNCHANGED retryOthers

RetryNext ==
    \/ \E outcome \in Outcomes : RetryAttempt(outcome)
    \/ RetryExhausted

SpecRetry == RetryInit /\ [][RetryNext]_vars

\* C15: called with max_retries >= 1, retry_action calls the action at most
\* max_retries times, goes on only after a failure and sleeps once after each
\* failure it goes on from; it returns the value of the first call that
\* succeeds; it raises only when max_retries calls have failed, and then the
\* exception of the last call, having slept max_retries - 1 times.
C15_RetryUntilSuccessOrLastFailure ==
    (retry.pc # "off" /\ retry.max_retries >= 1) =>
        LET calls == Len(retry.outcomes)
        IN  /\ calls <= retry.max_retries
            /\ \A k \in 1..(calls - 1) : ~retry.outcomes[k].ok
            /\ retry.pc = "loop" =>
                   /\ calls < retry.max_retries
                   /\ \A k \in 1..calls : ~retry.outcomes[k].ok
                   /\ Len(retry.sleeps) = calls
            /\ retry.pc = "returned" =>
                   /\ calls >= 1
                   /\ retry.outcomes[calls].ok
                   /\ retry.result = retry.outcomes[calls].value
                   /\ Len(retry.sleeps) = calls - 1
            /\ retry.pc = "raised" =>
                   /\ calls = retry.max_retries
                   /\ ~retry.outcomes[calls].ok
                   /\ retry.raised = retry.outcomes[calls].error
                   /\ Len(retry.sleeps) = retry.max_retries - 1

\* C15's case: three attempts failed, the last one otherwise than the first
\* two, and its exception was raised after two sleeps.
C15_Witness ==
    /\ retry.pc = "raised"
    /\ retry.max_retries = 3
    /\ Len(retry.outcomes) = 3
    /\ retry.outcomes[1].error = "e1"
    /\ retry.outcomes[3].error = "e2"
    /\ retry.raised = "e2"
    /\ Len(retry.sleeps) = 2

-----------------------------------------------------------------------------
(* normalize_phone, applied twice *)

\* The longest phone string normalized.
MaxPhoneLen == 3

\* The characters of the phone strings: those of the sentinel, a digit, the
\* plus sign and punctuation.
PhoneAlphabet == {"N", "/", "A", "5", "+", "-", " "}

PhoneInit ==
    /\ normalize \in {[pc |-> "start", input |-> p, once |-> <<>>, twice |-> <<>>] :
                         p \in ListsUpTo(PhoneAlphabet, MaxPhoneLen)}
    /\ MainOff
    /\ scroll = Idle
    /\ dedupe = Idle
    /\ ckpt = Idle
    /\ visit = Idle
    /\ retry = Idle
    /\ validate = Idle
    /\ resolve = Idle

phoneOthers == <<mainVars, scroll, dedupe, ckpt, visit, retry, validate, resolve>>

\* normalize_phone(phone)
NormalizeOnce ==
    /\ normalize.pc = "start"
    /\ normalize' = [normalize EXCEPT !.pc = "once", !.once = normalize_phone(normalize.input)]
    /\ UNCHANGED phoneOthers

\* normalize_phone of the result
NormalizeAgain ==
    /\ normalize.pc = "once"
    /\ normalize' = [normalize EXCEPT !.pc = "twice", !.twice = normalize_phone(normalize.once)]
    /\ UNCHANGED phoneOthers

PhoneNext ==
    \/ NormalizeOnce
    \/ NormalizeAgain

SpecPhone == PhoneInit /\ [][PhoneNext]_vars

\* C16: normalizing a normalized phone string changes nothing, and the
\* absent sentinel "N/A" is returned as it is.
C16_NormalizePhoneIdempotent ==
    /\ normalize.pc = "twice" => normalize.twice = normalize.once
    /\ (normalize.pc \in {"once", "twice"} /\ normalize.input = NA) => normalize.once = NA

\* C16's case: a phone string that loses characters the first time and none
\* the second time.
C16_Witness ==
    /\ normalize.pc = "twice"
    /\ normalize.input = <<"-", "5", " ">>
    /\ normalize.once = <<"5">>
    /\ normalize.twice = <<"5">>

-----------------------------------------------------------------------------
(* validate_email *)

IsAlnum(c) == IsAlpha(c) \/ IsDigit(c)

\* The class [a-zA-Z0-9._%+-] of the local part.
IsLocalChar(c) == IsAlnum(c) \/ c \in {".", "_", "%", "+", "-"}

\* The class [a-zA-Z0-9.-] of the domain.
IsDomainChar(c) == IsAlnum(c) \/ c \in {".", "-"}

\* Whether the whole of s is matched by
\* [a-zA-Z0-9][a-zA-Z0-9._%+-]*@[a-zA-Z0-9.-]+\.[a-zA-Z]{2,}
MatchesEmailPattern(s) ==
    \E at \in 2..Len(s) :
        /\ s[at] = "@"
        /\ IsAlnum(s[1])
        /\ \A i \in 2..(at - 1) : IsLocalChar(s[i])
        /\ \E dot \in (at + 2)..(Len(s) - 2) :
               /\ s[dot] = "."
               /\ \A i \in (at + 1)..(dot - 1) : IsDomainChar(s[i])
               /\ \A i \in (dot + 1)..Len(s) : IsAlpha(s[i])

\* re.match(pattern, email) with the pattern anchored by ^ and $: the string
\* matches, or it ends with a line break and matches without it.
PatternMatches(email) ==
    \/ MatchesEmailPattern(email)
    \/ /\ email # <<>>
       /\ email[Len(email)] = "\n"
       /\ MatchesEmailPattern(SubSeq(email, 1, Len(email) - 1))

\* invalid_patterns
invalid_patterns ==
    { <<"t", "e", "s", "t", "@">>,
      <<"e", "x", "a", "m", "p", "l", "e", "@">>,
      <<"t", "e", "m", "p", "@">>,
      <<"p", "l", "a", "c", "e", "h", "o", "l", "d", "e", "r", "@">>,
      <<"n", "o", "r", "e", "p", "l", "y", "@">>,
      <<"n", "o", "-", "r", "e", "p", "l", "y", "@">> }

\* invalid_extensions
invalid_extensions ==
    { <<".", "p", "n", "g">>,
      <<".", "j", "p", "g">>,
      <<".", "g", "i", "f">>,
      <<".", "s", "v", "g">>,
      <<".", "w", "e", "b", "p">> }

\* A validation that tests the candidate as it is written.
EmailLower_AsWritten(e) == e

\* `email_lower = email.lower()`
EmailLower(e) == Lower(e)

\* validate_email(email)
validate_email(candidate) ==
    IF ~PatternMatches(candidate) THEN FALSE
    ELSE LET email_lower == EmailLower(candidate)
         IN  IF \E p \in invalid_patterns : StartsWith(email_lower, p) THEN FALSE
             ELSE IF \E ext \in invalid_extensions : EndsWith(email_lower, ext) THEN FALSE
             ELSE TRUE

\* The candidates: a local part, a separator, a host, a dot, an ending and
\* possibly a line break.
LocalParts ==
    { <<"t", "e", "s", "t">>,
      <<"T", "e", "s", "t">>,
      <<"E", "X", "A", "M", "P", "L", "E">>,
      <<"t", "e", "m", "p">>,
      <<"p", "l", "a", "c", "e", "h", "o", "l", "d", "e", "r">>,
      <<"n", "o", "r", "e", "p", "l", "y">>,
      <<"N", "o", "-", "R", "e", "p", "l", "y">>,
      <<"i", "n", "f", "o">>,
      <<"a", ".", "b", "%", "c">>,
      <<"c", "o", "n", "t", "e", "s", "t">>,
      <<"-", "x">> }

Separators == {<<"@">>, <<"%">>, <<"@", "@">>}

Hosts ==
    { <<"x">>,
      <<"a", "c", "m", "e", ".", "c", "o">>,
      <<"a", "-", "b">>,
      <<"a", "_", "b">> }

Endings ==
    { <<"c", "o", "m">>,
      <<"p", "n", "g">>,
      <<"P", "N", "G">>,
      <<"j", "p", "g">>,
      <<"G", "i", "f">>,
      <<"s", "v", "g">>,
      <<"w", "e", "b", "p">>,
      <<"W", "e", "b", "P">>,
      <<"c">>,
      <<"c", "0", "m">> }

Tails == {<<>>, <<"\n">>}

Candidates ==
    {l \o s \o h \o <<".">> \o e \o t :
        l \in LocalParts, s \in Separators, h \in Hosts, e \in Endings, t \in Tails}

EmailInit ==
    /\ validate \in {[pc |-> "start", email |-> c, result |-> FALSE] : c \in Candidates}
    /\ MainOff
    /\ scroll = Idle
    /\ dedupe = Idle
    /\ ckpt = Idle
    /\ visit = Idle
    /\ retry = Idle
    /\ normalize = Idle
    /\ resolve = Idle

emailOthers == <<mainVars, scroll, dedupe, ckpt, visit, retry, normalize, resolve>>

\* validate_email(email)
ValidateEmail ==
    /\ validate.pc = "start"
    /\ validate' = [validate EXCEPT !.pc = "done", !.result = validate_email(validate.email)]
    /\ UNCHANGED emailOthers

EmailNext ==
    \/ ValidateEmail

SpecEmail == EmailInit /\ [][EmailNext]_vars

\* C17: a candidate that ends, in whatever case, in .png, .jpg, .gif, .svg
\* or .webp, or that starts, in whatever case, with test@, example@, temp@,
\* placeholder@, noreply@ or no-reply@, is rejected.
C17_ImageAndPlaceholderRejected ==
    validate.pc = "done" =>
        LET lowered == Lower(validate.email)
        IN  (\/ \E ext \in invalid_extensions : EndsWith(lowered, ext)
             \/ \E p \in invalid_patterns : StartsWith(lowered, p))
                => ~validate.result

\* C17's case: a well-formed address in an image's name, in upper case, is
\* rejected.
C17_Witness ==
    /\ validate.pc = "done"
    /\ validate.email = <<"i", "n", "f", "o", "@", "a", "c", "m", "e", ".", "c", "o", ".", "P", "N", "G">>
    /\ MatchesEmailPattern(validate.email)
    /\ ~validate.result

-----------------------------------------------------------------------------
(* get_selector *)

\* The selector lists have up to MaxSelectors selectors.
MaxSelectors == 3

\* What a selector meets on the page: no element, an element that is not
\* visible, a visible one, a query that raises, or an element whose
\* is_visible() raises.
Findings == {"absent", "hidden", "visible", "query_raises", "visible_raises"}

\* The element the selector at position k matches.
ElementAt(k) == [element |-> TRUE, selector |-> k]

\* A test that takes any element the query returns.
Usable_AnyMatch(found) == found \in {"hidden", "visible"}

\* `if element and element.is_visible()`, the calls having returned.
Usable(found) == found = "visible"

\* The call: `i` selectors have been tried.
ResolveEntry(selectors) ==
    [pc |-> "loop", selectors |-> selectors, i |-> 0, result |-> None]

ResolveInit ==
    /\ resolve \in {ResolveEntry(l) : l \in ListsUpTo(Findings, MaxSelectors)}
    /\ MainOff
    /\ scroll = Idle
    /\ dedupe = Idle
    /\ ckpt = Idle
    /\ visit = Idle
    /\ retry = Idle
    /\ normalize = Idle
    /\ validate = Idle

resolveOthers == <<mainVars, scroll, dedupe, ckpt, visit, retry, normalize, validate>>

\* One pass of `for selector in selectors`: the element is returned when the
\* query gives one and it is visible; otherwise, and when either call raises
\* (`except: continue`), the loop goes on to the next selector.
ResolveTry ==
    /\ resolve.pc = "loop"
    /\ resolve.i < Len(resolve.selectors)
    /\ resolve' =
           IF Usable(resolve.selectors[resolve.i + 1])
           THEN [resolve EXCEPT !.pc = "done", !.i = @ + 1, !.result = ElementAt(resolve.i + 1)]
           ELSE [resolve EXCEPT !.i = @ + 1]
    /\ UNCHANGED resolveOthers

\* The list is exhausted: `return None`.
ResolveNone ==
    /\ resolve.pc = "loop"
    /\ resolve.i = Len(resolve.selectors)
    /\ resolve' = [resolve EXCEPT !.pc = "done", !.result = None]
    /\ UNCHANGED resolveOthers

ResolveNext ==
    \/ ResolveTry
    \/ ResolveNone

SpecResolve == ResolveInit /\ [][ResolveNext]_vars

\* The positions of the selectors that match a visible element.
VisibleAt == {k \in 1..Len(resolve.selectors) : resolve.selectors[k] = "visible"}

\* C24: the call returns; what it returns is the element of the first
\* selector of the list that matches a visible element, later selectors not
\* being tried, and None exactly when no selector of the list matches one;
\* a query or a visibility test that raises is passed over.
C24_FirstVisibleSelectorWins ==
    /\ resolve.pc \in {"off", "loop", "done"}
    /\ resolve.pc = "loop" => \A k \in VisibleAt : k > resolve.i
    /\ resolve.pc = "done" =>
           /\ resolve.result = None <=> VisibleAt = {}
           /\ VisibleAt # {} =>
                  /\ resolve.result = ElementAt(CHOOSE k \in VisibleAt : \A j \in VisibleAt : k <= j)
                  /\ resolve.i = resolve.result.selector
           /\ VisibleAt = {} => resolve.i = Len(resolve.selectors)

\* C24's case: the first selector matches a hidden element, the second and
\* the third a visible one each; the second's element is returned and the
\* third selector was not tried.
C24_Witness ==
    /\ resolve.pc = "done"
    /\ resolve.selectors = <<"hidden", "visible", "visible">>
    /\ resolve.result = ElementAt(2)
    /\ resolve.i = 2

====
